---- MODULE Spec2Model ----
(***************************************************************************)
(* Condor UDP Middleware: the receive -> convert -> forward pipeline of    *)
(* core/bridge.py and core/converter.py as a state machine.                *)
(*                                                                         *)
(* Execution contexts:                                                     *)
(*   - the caller of the bridge (start / stop run on one event loop, one   *)
(*     operation at a time; position in `op`),                             *)
(*   - the listen threads spawned by MiddlewareUDPReceiver.start_receiving *)
(*     (one per successful bind; position and locals in `th`),             *)
(*   - the supervisory task _main_loop (state in bridge.main_task),        *)
(*   - the thread that calls update_conversion_settings.                   *)
(*                                                                         *)
(* Numbers are fixed point: an input value v stands for v.0 and an output  *)
(* value is an integer count of 1e-5 units (328084 stands for 3.28084).    *)
(* A statement `x += 1` is one atomic step.  Consecutive statements of one *)
(* context are one action when no other context can tell them apart (they  *)
(* touch different objects than every step that could come in between).    *)
(***************************************************************************)
EXTENDS Integers, Sequences, FiniteSets, TLC

\* ------------------------------------------------------------------ bounds
MaxStarts == 2        \* start() calls explored
MaxDatagrams == 2     \* datagrams delivered by the network
MaxReloads == 2       \* update_settings calls explored
MaxPolls == 2         \* polls of the supervisory loop recorded
MaxRedundant == 1     \* redundant start() and stop() calls recorded
MaxCalls == 4         \* calls made to a converter on its own
MaxSendThreads == 3   \* send threads a UDPSender starts
MaxQueued == 2        \* messages offered to send_message_async
MaxToggles == 3       \* clicks on the window's start/stop button

Threads == 1..MaxStarts

\* ------------------------------------------------------- converter tables
\* UnitConverter.variable_mappings (the variables used by the messages below
\* and one of each category).
variable_mappings ==
    [altitude |-> "altitude", height |-> "altitude",
     airspeed |-> "speed", vx |-> "speed",
     vario |-> "vario", az |-> "acceleration"]

meters_to_feet == 328084
mps_to_kmh == 360000
mps_to_knots == 194384
mps_to_fpm == 19685000
mps2_to_fps2 == 328084

\* A float that was not multiplied: v.0 in 1e-5 units.
Unconverted(v) == v * 100000

\* _convert_altitude .. _convert_acceleration: <<value, was_converted>>.
\* `raw` is the parsed input value.
\* _convert_altitude taking a unit it does not know for feet.
_convert_altitude_UnknownAsFeet(raw, target_unit) ==
    IF target_unit = "meters" THEN <<Unconverted(raw), FALSE>>
    ELSE <<raw * meters_to_feet, TRUE>>

_convert_altitude(raw, target_unit) ==
    IF target_unit = "meters" THEN <<Unconverted(raw), FALSE>>
    ELSE IF target_unit = "feet" THEN <<raw * meters_to_feet, TRUE>>
    ELSE <<Unconverted(raw), FALSE>>

\* _convert_speed reporting the source unit as a conversion.
_convert_speed_CountsSource(raw, target_unit) ==
    IF target_unit = "mps" THEN <<Unconverted(raw), TRUE>>
    ELSE IF target_unit = "kmh" THEN <<raw * mps_to_kmh, TRUE>>
    ELSE IF target_unit = "knots" THEN <<raw * mps_to_knots, TRUE>>
    ELSE <<Unconverted(raw), FALSE>>

\* _convert_speed taking the km/h factor for knots.
_convert_speed_KnotsAsKmh(raw, target_unit) ==
    IF target_unit = "mps" THEN <<Unconverted(raw), FALSE>>
    ELSE IF target_unit = "kmh" THEN <<raw * mps_to_kmh, TRUE>>
    ELSE IF target_unit = "knots" THEN <<raw * mps_to_kmh, TRUE>>
    ELSE <<Unconverted(raw), FALSE>>

_convert_speed(raw, target_unit) ==
    IF target_unit = "mps" THEN <<Unconverted(raw), FALSE>>
    ELSE IF target_unit = "kmh" THEN <<raw * mps_to_kmh, TRUE>>
    ELSE IF target_unit = "knots" THEN <<raw * mps_to_knots, TRUE>>
    ELSE <<Unconverted(raw), FALSE>>

_convert_vario(raw, target_unit) ==
    IF target_unit = "mps" THEN <<Unconverted(raw), FALSE>>
    ELSE IF target_unit = "fpm" THEN <<raw * mps_to_fpm, TRUE>>
    ELSE <<Unconverted(raw), FALSE>>

_convert_acceleration(raw, target_unit) ==
    IF target_unit = "mps2" THEN <<Unconverted(raw), FALSE>>
    ELSE IF target_unit = "fps2" THEN <<raw * mps2_to_fps2, TRUE>>
    ELSE <<Unconverted(raw), FALSE>>

_convert_variable(raw, conversion_type, target_unit) ==
    CASE conversion_type = "altitude" -> _convert_altitude(raw, target_unit)
      [] conversion_type = "speed" -> _convert_speed(raw, target_unit)
      [] conversion_type = "vario" -> _convert_vario(raw, target_unit)
      [] conversion_type = "acceleration" -> _convert_acceleration(raw, target_unit)
      [] OTHER -> <<Unconverted(raw), FALSE>>

\* The five decimal digits of a count of 1e-5 below one unit, and a digit
\* sequence without its trailing zeros.
Digits5(r) ==
    << r \div 10000, (r \div 1000) % 10, (r \div 100) % 10, (r \div 10) % 10,
       r % 10 >>

RECURSIVE StripZeros(_)
StripZeros(ds) ==
    IF ds # << >> /\ ds[Len(ds)] = 0
    THEN StripZeros(SubSeq(ds, 1, Len(ds) - 1))
    ELSE ds

\* A rendering with a fixed number of decimals: f"{value:.5f}".
format_15g_FixedDecimals(x) ==
    LET a == IF x < 0 THEN 0 - x ELSE x
    IN  [neg |-> x < 0, int |-> a \div 100000, frac |-> Digits5(a % 100000)]

\* f"{value:.15g}" (line 271) for a value of the model's range (fewer than 15
\* significant digits, no exponent): the sign, the integer part and the
\* decimals without trailing zeros; no decimal point when there are none.
format_15g(x) ==
    LET a == IF x < 0 THEN 0 - x ELSE x
    IN  [neg |-> x < 0, int |-> a \div 100000,
         frac |-> StripZeros(Digits5(a % 100000))]

\* _rebuild_message: one line "key=value" per item of the dictionary, joined
\* by CRLF, with a CRLF after the last one.
_rebuild_message(data) ==
    [i \in 1..Len(data) |-> <<data[i][1], format_15g(data[i][2])>>]

\* ---------------------------------------------------------------- messages
\* The result of kv_pattern.findall on the datagrams the network delivers:
\* sequences of <<name, value>>.
Msgs ==
    << << <<"altitude", 100>>, <<"airspeed", 10>> >> >>

MsgIds == 1..Len(Msgs)

\* Datagrams as recvfrom returns them: sequences of chunks.  A chunk is a
\* pair <<name, value>> (the bytes of "name=value" and a line end), a byte
\* that is not valid UTF-8 (<<"xFF">>), or text without any pair
\* (<<"junk">>).  The empty sequence is a datagram of length zero.  The first
\* entries are Msgs; the others are delivered to a bridge that is running.
Datagrams ==
    Msgs \o
    << << >>,
       << <<"xFF">> >>,
       << <<"altitude", 100>>, <<"xFF">>, <<"vario", 2>> >>,
       << <<"junk">> >>,
       << <<"time", 1>>, <<"az", 3>> >>,
       << <<"altitude", 100>>, <<"airspeed", 10>>, <<"altitude", 200>> >>,
       << <<"time", 1>>, <<"airspeed", 30>>, <<"altitude", 1000>> >> >>

DatagramIds == 1..Len(Datagrams)

IsInvalidByte(c) == Len(c) = 1 /\ c[1] = "xFF"
IsPair(c) == Len(c) = 2

\* data.decode('utf-8', errors='ignore'): the invalid bytes are left out.
decode(data) == SelectSeq(data, LAMBDA c : ~IsInvalidByte(c))

\* kv_pattern.findall(original_message): the pairs of the text, in order.
findall(text) == SelectSeq(text, IsPair)

\* data_dict = {key: value for key, value in pairs}: a dict keeps the place of
\* a key's first occurrence and the value of its last one.
RECURSIVE DictOf(_)
DictOf(pairs) ==
    IF pairs = << >> THEN << >>
    ELSE LET n == Len(pairs)
             head == DictOf(SubSeq(pairs, 1, n - 1))
             last == pairs[n]
         IN  IF \E i \in 1..Len(head) : head[i][1] = last[1]
             THEN [i \in 1..Len(head) |->
                     IF head[i][1] = last[1] THEN last ELSE head[i]]
             ELSE Append(head, last)

\* The dictionary process_message builds from the text the handler was
\* called with for datagram m.
data_dict(m) == DictOf(findall(decode(Datagrams[m])))

\* ------------------------------------------------------ conversion settings
\* UnitConversionSettings defaults (core/settings.py).
DefaultConversions ==
    [enabled |-> TRUE, altitude |-> "meters", speed |-> "mps",
     vario |-> "mps", acceleration |-> "mps2"]

\* The conversions section of the settings file the bridge is constructed
\* from: the defaults, or a user's choice of units.
InitialConversions ==
    { DefaultConversions,
      [DefaultConversions EXCEPT !.altitude = "feet", !.speed = "knots"] }

\* The partial dictionaries passed to update_conversion_settings: values of
\* the type of their field; the last one also names a key the conversions
\* section does not have.
Partials ==
    { [altitude |-> "feet", speed |-> "knots"],
      [enabled |-> FALSE],
      [enabled |-> FALSE, units |-> "metric"] }

\* update_conversion_settings with every field it does not name set back to
\* its default.
ApplyPartial_Replace(s, p) ==
    [k \in DOMAIN s |-> IF k \in DOMAIN p THEN p[k] ELSE DefaultConversions[k]]

\* MiddlewareSettings.set for each key of the partial (a key that is no field
\* of the section is refused by hasattr, a value of the field's type is
\* assigned as it is), then the dictionary built from MiddlewareSettings.get.
ApplyPartial(s, p) ==
    [k \in DOMAIN s |-> IF k \in DOMAIN p THEN p[k] ELSE s[k]]

\* One iteration of the loop of _apply_conversions on the item `item` of the
\* data dictionary, reading the settings dictionary `cs`:
\* <<output value, conversion_applied>>.
ConvertItem(item, cs) ==
    IF item[1] \notin DOMAIN variable_mappings
    THEN <<Unconverted(item[2]), FALSE>>
    ELSE LET conversion_type == variable_mappings[item[1]]
             target_unit == cs[conversion_type]
         IN  IF target_unit = "" THEN <<Unconverted(item[2]), FALSE>>
             ELSE _convert_variable(item[2], conversion_type, target_unit)

\* _apply_conversions without the test of the enabled flag.
ApplyConversionsWith_IgnoresEnabled(data, cs) ==
    [out |-> [i \in 1..Len(data) |->
                 <<data[i][1], ConvertItem(data[i], cs)[1]>>],
     conv |-> << >>]

\* _apply_conversions run against one settings dictionary from its first line
\* to its last: [out |-> converted items, conv |-> variables_converted].
ApplyConversionsWith(data, cs) ==
    IF ~cs.enabled
    THEN [out |-> [i \in 1..Len(data) |-> <<data[i][1], Unconverted(data[i][2])>>],
          conv |-> << >>]
    ELSE [out |-> [i \in 1..Len(data) |->
                     <<data[i][1], ConvertItem(data[i], cs)[1]>>],
          conv |-> LET F[i \in 0..Len(data)] ==
                         IF i = 0 THEN << >>
                         ELSE IF ConvertItem(data[i], cs)[2]
                              THEN Append(F[i - 1], data[i][1])
                              ELSE F[i - 1]
                   IN  F[Len(data)]]

\* ------------------------------------------------------------------- state
VARIABLES
    bridge,      \* UDPMiddlewareBridge: running, error_count, the three
                 \* message counters, main_task
    rcv,         \* MiddlewareUDPReceiver: socket, running, receive_thread,
                 \* messages_received, error_count
    snd,         \* MiddlewareUDPSender: socket, connected, messages_sent,
                 \* error_count
    settings,    \* MiddlewareSettings: the conversions section
    conv,        \* UnitConverter: conversion_settings, conversions_applied,
                 \* variables_converted
    th,          \* listen threads: position and locals of _receive_loop and
                 \* of the handler it calls
    op,          \* the bridge operation in progress, or the last one when
                 \* none is (pc = "idle"): what it was and what it has done
    net,         \* what the callers and the network have done so far: calls
                 \* of start(), datagrams delivered, the last one delivered
    hist         \* history: outcome of the last start()

vars == <<bridge, rcv, snd, settings, conv, th, op, net, hist>>

HandlerPcs == {"h_begin", "h_pairs", "h_send"}
InHandler(t) == th[t].pc \in HandlerPcs
Alive(t) == th[t].pc \notin {"unborn", "dead"}

\* Locals of a listen thread outside the handler.
NoLocals(pc) ==
    [pc |-> pc, m |-> 0, i |-> 0, text |-> "none",
     out |-> << >>, conv |-> << >>, seen |-> {}]

\* A bridge operation that has just been called.
NewOp(kind, pc) ==
    [kind |-> kind, pc |-> pc, fail |-> "none", sender_called |-> FALSE,
     task_launched |-> FALSE, join |-> "none"]

\* UDPMiddlewareBridge.__init__ with _init_components.
Init ==
    /\ bridge = [running |-> FALSE, error_count |-> 0, messages_processed |-> 0,
                 messages_converted |-> 0, messages_forwarded |-> 0,
                 main_task |-> "none"]
    /\ rcv = [socket |-> "none", running |-> FALSE, receive_thread |-> 0,
              messages_received |-> 0, error_count |-> 0]
    /\ snd = [socket |-> "none", connected |-> FALSE, messages_sent |-> 0,
              error_count |-> 0]
    /\ settings \in InitialConversions
    /\ conv = [conversion_settings |-> settings,
               conversions_applied |-> 0, variables_converted |-> {}]
    /\ th = [t \in Threads |-> NoLocals("unborn")]
    /\ op = NewOp("none", "idle")
    /\ net = [starts |-> 0, delivered |-> 0, last |-> 0]
    /\ hist = [last_start |-> "none"]

\* ------------------------------------------------- UDPMiddlewareBridge.start
\* start() on a bridge that is already running: warning, return.
StartAlreadyRunning ==
    /\ op.pc = "idle"
    /\ bridge.running
    /\ UNCHANGED vars

\* start(), lines 324-336: the running flag, the error counter and the
\* statistics are set before any component is started.
StartBegin ==
    /\ op.pc = "idle"
    /\ ~bridge.running
    /\ net.starts < MaxStarts
    /\ net' = [net EXCEPT !.starts = @ + 1]
    /\ bridge' = [bridge EXCEPT !.running = TRUE, !.error_count = 0,
                                !.messages_processed = 0,
                                !.messages_converted = 0,
                                !.messages_forwarded = 0]
    /\ op' = NewOp("start", "start_recv")
    /\ hist' = [hist EXCEPT !.last_start = "pending"]
    /\ UNCHANGED <<rcv, snd, settings, conv, th>>

\* The thread object start_receiving creates: the first one not yet used.
NewThread == CHOOSE t \in Threads :
                 /\ th[t].pc = "unborn"
                 /\ \A u \in Threads : u < t => th[u].pc # "unborn"

\* MiddlewareUDPReceiver.start_receiving, bind succeeds: socket, running flag,
\* receive thread started.
start_receiving_ok ==
    /\ rcv' = [rcv EXCEPT !.socket = "open", !.running = TRUE,
                          !.receive_thread = NewThread]
    /\ th' = [th EXCEPT ![NewThread] = NoLocals("check")]

\* MiddlewareUDPReceiver.start_receiving, bind raises OSError: the socket was
\* created and assigned, nothing else was.
start_receiving_fails ==
    /\ rcv' = [rcv EXCEPT !.socket = "unbound"]
    /\ UNCHANGED th

\* start(), lines 338-343.
StartReceiverOk ==
    /\ op.pc = "start_recv"
    /\ start_receiving_ok
    /\ op' = [op EXCEPT !.pc = "start_send"]
    /\ UNCHANGED <<bridge, snd, settings, conv, net, hist>>

\* start() without the `return` of line 343: it goes on to the sender.
OnReceiverFailure_GoesOn == [pc |-> "start_send", count |-> 1]

\* What start() does when start_receiving returned False, lines 340-343:
\* where it goes on, and whether it counts an error.
OnReceiverFailure == [pc |-> "stop_begin", count |-> 1]

StartReceiverFails ==
    /\ op.pc = "start_recv"
    /\ start_receiving_fails
    /\ bridge' = [bridge EXCEPT !.error_count = @ + OnReceiverFailure.count]
    /\ op' = [op EXCEPT !.pc = OnReceiverFailure.pc, !.fail = "bind"]
    /\ UNCHANGED <<snd, settings, conv, net, hist>>

\* start_sending counting a target it could not validate as an error.
start_sending_ok_ValidationCounted(validated) ==
    snd' = [snd EXCEPT !.socket = "open", !.connected = validated,
                       !.error_count = IF validated THEN @ ELSE @ + 1]

\* MiddlewareUDPSender.start_sending: the socket is created; validating the
\* target by connect may fail, which only clears the connected flag.
start_sending_ok(validated) ==
    snd' = [snd EXCEPT !.socket = "open", !.connected = validated]

\* MiddlewareUDPSender.start_sending, socket creation raises OSError.
start_sending_fails ==
    snd' = [snd EXCEPT !.error_count = @ + 1]

\* start(), lines 345-353: the sender is opened and the supervisory task
\* created without an await in between.
StartSenderOk ==
    /\ op.pc = "start_send"
    /\ \E validated \in BOOLEAN : start_sending_ok(validated)
    /\ bridge' = [bridge EXCEPT !.main_task = "active"]
    /\ op' = [op EXCEPT !.pc = "idle", !.sender_called = TRUE,
                        !.task_launched = TRUE]
    /\ hist' = [hist EXCEPT !.last_start = "ok"]
    /\ UNCHANGED <<rcv, settings, conv, th, net>>

\* start() returning on a sender failure without `await self.stop()`.
OnSenderFailure_NoStop == [pc |-> "idle", count |-> 1]

\* What start() does when start_sending returned False, lines 347-350.
OnSenderFailure == [pc |-> "stop_begin", count |-> 1]

StartSenderFails ==
    /\ op.pc = "start_send"
    /\ start_sending_fails
    /\ bridge' = [bridge EXCEPT !.error_count = @ + OnSenderFailure.count]
    /\ op' = [op EXCEPT !.pc = OnSenderFailure.pc, !.fail = "open",
                        !.sender_called = TRUE]
    /\ UNCHANGED <<rcv, settings, conv, th, net, hist>>

\* -------------------------------------------------- UDPMiddlewareBridge.stop
\* stop() on a bridge that is not running: warning, return.
StopNotRunning ==
    /\ op.pc = "idle"
    /\ ~bridge.running
    /\ UNCHANGED vars

\* stop() called by the owner of a running bridge.
StopCall ==
    /\ op.pc = "idle"
    /\ bridge.running
    /\ op' = NewOp("stop", "stop_begin")
    /\ UNCHANGED <<bridge, rcv, snd, settings, conv, th, net, hist>>

\* stop() closing the receiver before the sender.
StopNext_ReceiverFirst(pc) ==
    CASE pc = "stop_begin" -> "stop_recv"
      [] pc = "stop_recv" -> "stop_join"
      [] pc = "stop_join" -> "stop_send"
      [] pc = "stop_send" -> "idle"

\* The order of the parts of stop(): the supervisory task (lines 377-385),
\* the sender (387-392), the receiver (394-399), return.
StopNext(pc) ==
    CASE pc = "stop_begin" -> "stop_send"
      [] pc = "stop_send" -> "stop_recv"
      [] pc = "stop_recv" -> "stop_join"
      [] pc = "stop_join" -> "idle"

\* A part of stop() is done; when it was the last one stop() returns, and so
\* does the start() that awaited it.
StopAdvance(join) ==
    /\ op' = [op EXCEPT !.pc = StopNext(op.pc),
                        !.join = IF join = "none" THEN @ ELSE join]
    /\ hist' = IF StopNext(op.pc) = "idle" /\ op.kind = "start"
               THEN [hist EXCEPT !.last_start = "failed"]
               ELSE hist

\* stop() resetting the statistics as start() does.
StopMainTask_ResetsStatistics ==
    /\ op.pc = "stop_begin"
    /\ bridge' = [bridge EXCEPT !.running = FALSE,
                    !.main_task = IF @ = "none" THEN "none" ELSE "done",
                    !.error_count = 0, !.messages_processed = 0,
                    !.messages_converted = 0, !.messages_forwarded = 0]
    /\ StopAdvance("none")
    /\ UNCHANGED <<rcv, snd, settings, conv, th, net>>

\* stop(), lines 377-385: running is cleared, the supervisory task cancelled
\* and awaited (a task that is already done stays done).
StopMainTask ==
    /\ op.pc = "stop_begin"
    /\ bridge' = [bridge EXCEPT !.running = FALSE,
                    !.main_task = IF @ = "none" THEN "none" ELSE "done"]
    /\ StopAdvance("none")
    /\ UNCHANGED <<rcv, snd, settings, conv, th, net>>

\* MiddlewareUDPSender.close: the socket object is closed and kept.
sender_close ==
    snd' = [snd EXCEPT !.socket = IF @ = "none" THEN "none" ELSE "closed",
                       !.connected = FALSE]

\* stop(), lines 387-392.
StopSender ==
    /\ op.pc = "stop_send"
    /\ sender_close
    /\ StopAdvance("none")
    /\ UNCHANGED <<bridge, rcv, settings, conv, th, net>>

\* MiddlewareUDPReceiver.close, line 107.
StopReceiverFlag ==
    /\ op.pc = "stop_recv"
    /\ rcv' = [rcv EXCEPT !.running = FALSE]
    /\ StopAdvance("none")
    /\ UNCHANGED <<bridge, snd, settings, conv, th, net>>

\* close() joining without a timeout: it returns only when the thread is dead.
JoinOutcome_Unbounded ==
    IF rcv.receive_thread = 0 \/ ~Alive(rcv.receive_thread) THEN "joined"
    ELSE "waiting"

\* receive_thread.join(timeout=THREAD_JOIN_TIMEOUT) has returned: the thread
\* has terminated, or the timeout has passed.  A thread outside the handler
\* leaves recvfrom within SOCKET_TIMEOUT < THREAD_JOIN_TIMEOUT and sees the
\* cleared flag, so only a handler invocation can outlast the join.
JoinOutcome ==
    IF rcv.receive_thread = 0 \/ ~Alive(rcv.receive_thread) THEN "joined"
    ELSE IF InHandler(rcv.receive_thread) THEN "timeout"
    ELSE "waiting"

\* MiddlewareUDPReceiver.close, lines 108-114: the join, then the socket.
StopReceiverJoin ==
    /\ op.pc = "stop_join"
    /\ JoinOutcome # "waiting"
    /\ rcv' = [rcv EXCEPT !.socket = IF @ = "none" THEN "none" ELSE "closed"]
    /\ StopAdvance(JoinOutcome)
    /\ UNCHANGED <<bridge, snd, settings, conv, th, net>>

\* ------------------------------------ MiddlewareUDPReceiver._receive_loop
\* `while self.running:` evaluated by thread t.
LoopCheck(t) ==
    /\ th[t].pc = "check"
    /\ th' = [th EXCEPT ![t].pc = IF rcv.running THEN "recv" ELSE "dead"]
    /\ UNCHANGED <<bridge, rcv, snd, settings, conv, op, net, hist>>

\* The receiver taking every datagram, whatever its length.
HasData_Always(m) == TRUE

\* `if data:` (line 78): a bytes object is true when it is not empty.
HasData(m) == Datagrams[m] # << >>

\* recvfrom returns datagram m (lines 77-86): under `if data:` the receiver
\* counts it and calls data_callback, which was set when the receiver was
\* constructed; a datagram of length zero goes round the loop.
RecvDatagram(t, m) ==
    /\ th[t].pc = "recv"
    /\ rcv.socket = "open"
    /\ net.delivered < MaxDatagrams
    /\ net' = [net EXCEPT !.delivered = @ + 1, !.last = m]
    /\ IF HasData(m)
       THEN /\ rcv' = [rcv EXCEPT !.messages_received = @ + 1]
            /\ th' = [th EXCEPT ![t] = [NoLocals("h_begin") EXCEPT !.m = m]]
       ELSE /\ th' = [th EXCEPT ![t] = NoLocals("check")]
            /\ UNCHANGED rcv
    /\ UNCHANGED <<bridge, snd, settings, conv, op, hist>>

\* recvfrom raises socket.timeout after SOCKET_TIMEOUT: continue.
RecvTimeout(t) ==
    /\ th[t].pc = "recv"
    /\ th' = [th EXCEPT ![t].pc = "check"]
    /\ UNCHANGED <<bridge, rcv, snd, settings, conv, op, net, hist>>

\* recvfrom raises OSError (lines 93-97): counted if still running, and the
\* loop is left.  On a closed socket this is the outcome of a new call; on an
\* open one it is an error of the network.
RecvError(t) ==
    /\ th[t].pc = "recv"
    /\ rcv' = [rcv EXCEPT !.error_count = IF rcv.running THEN @ + 1 ELSE @]
    /\ th' = [th EXCEPT ![t].pc = "dead"]
    /\ UNCHANGED <<bridge, snd, settings, conv, op, net, hist>>

\* --------------------------------- UDPMiddlewareBridge._handle_udp_data
\* Lines 301-304, process_message lines 101-106 and _apply_conversions lines
\* 143-152: the message is counted and parsed; without pairs process_message
\* returns the original text; otherwise the enabled flag is read from the
\* dictionary self.conversion_settings refers to now.
HandlerBegin(t) ==
    /\ th[t].pc = "h_begin"
    /\ bridge' = [bridge EXCEPT !.messages_processed = @ + 1]
    /\ LET data == data_dict(th[t].m)
           cs == conv.conversion_settings
       IN  th' = [th EXCEPT ![t] =
                IF data = << >>
                THEN [@ EXCEPT !.pc = "h_send", !.text = "original"]
                ELSE IF ~cs.enabled
                THEN [@ EXCEPT !.pc = "h_send", !.text = "rebuilt",
                               !.out = ApplyConversionsWith(data, cs).out,
                               !.seen = {cs}]
                ELSE [@ EXCEPT !.pc = "h_pairs", !.i = 1, !.seen = {cs}]]
    /\ UNCHANGED <<rcv, snd, settings, conv, op, net, hist>>

\* process_message adding one per converted message instead of the number of
\* conversions.
StatsAfter_CountsMessages(converted) ==
    IF Len(converted) > 0
    THEN [conv EXCEPT !.conversions_applied = @ + 1,
                      !.variables_converted =
                          @ \cup {converted[i] : i \in 1..Len(converted)}]
    ELSE conv

\* process_message lines 114-117: the converter's statistics.
StatsAfter(converted) ==
    IF Len(converted) > 0
    THEN [conv EXCEPT !.conversions_applied = @ + Len(converted),
                      !.variables_converted =
                          @ \cup {converted[i] : i \in 1..Len(converted)}]
    ELSE conv

\* _handle_udp_data lines 307-309: the bridge counts a converted message.
CountConverted(converted) ==
    IF Len(converted) > 0
    THEN [bridge EXCEPT !.messages_converted = @ + 1]
    ELSE bridge

\* The settings dictionary an iteration of the loop of _apply_conversions
\* reads (line 160): the one self.conversion_settings refers to when the
\* iteration runs.
SettingsRead(t) == conv.conversion_settings

\* _apply_conversions lines 154-181, one iteration; after the last one
\* _rebuild_message, the statistics of process_message and the converted
\* counter of the handler.
ConvPair(t) ==
    /\ th[t].pc = "h_pairs"
    /\ LET data == data_dict(th[t].m)
           item == data[th[t].i]
           r == ConvertItem(item, SettingsRead(t))
           out2 == Append(th[t].out, <<item[1], r[1]>>)
           conv2 == IF r[2] THEN Append(th[t].conv, item[1]) ELSE th[t].conv
       IN  IF th[t].i < Len(data)
           THEN /\ th' = [th EXCEPT ![t].i = @ + 1, ![t].out = out2,
                                    ![t].conv = conv2]
                /\ UNCHANGED <<conv, bridge>>
           ELSE /\ th' = [th EXCEPT ![t].pc = "h_send", ![t].text = "rebuilt",
                                    ![t].out = out2, ![t].conv = conv2]
                /\ conv' = StatsAfter(conv2)
                /\ bridge' = CountConverted(conv2)
    /\ UNCHANGED <<rcv, snd, settings, op, net, hist>>

\* The message the handler passes to send_message (lines 304 and 312): the
\* text _rebuild_message built, or, when process_message found no pair, the
\* text the handler was called with.
Payload(t) ==
    IF th[t].text = "rebuilt"
    THEN [rebuilt |-> TRUE, lines |-> _rebuild_message(th[t].out)]
    ELSE [rebuilt |-> FALSE, lines |-> decode(Datagrams[th[t].m])]

\* MiddlewareUDPSender.send_message: "sent", "no_socket" (returns False
\* before any attempt) or "oserror" (sendto raised, counted by the sender).
\* sendto on a closed socket always raises; on an open one it may.
SendOutcomes ==
    IF snd.socket = "none" THEN {"no_socket"}
    ELSE IF snd.socket = "closed" THEN {"oserror"}
    ELSE {"sent", "oserror"}

send_message(outcome) ==
    snd' = [snd EXCEPT
              !.messages_sent = IF outcome = "sent" THEN @ + 1 ELSE @,
              !.error_count = IF outcome = "oserror" THEN @ + 1 ELSE @]

\* Lines 312-316: the result of send_message decides which counter moves.
CountSend(outcome) ==
    IF outcome = "sent"
    THEN [bridge EXCEPT !.messages_forwarded = @ + 1]
    ELSE [bridge EXCEPT !.error_count = @ + 1]

HandlerSend(t) ==
    /\ th[t].pc = "h_send"
    /\ \E outcome \in SendOutcomes :
          /\ send_message(outcome)
          /\ bridge' = CountSend(outcome)
    /\ th' = [th EXCEPT ![t] = NoLocals("check")]
    /\ UNCHANGED <<rcv, settings, conv, op, net, hist>>

\* _receive_loop without the try/except around the callback: the exception
\* ends the thread.
AfterHandlerException_Breaks(cls) == "dead"

\* Where the listen thread goes on after an exception raised inside the
\* handler: a class of line 318 is caught by the handler, any other Exception
\* by line 87 of _receive_loop; both go on with the next iteration.
AfterHandlerException(cls) == "check"

\* An exception raised while the handler forwards the message.  A class of
\* line 318 is counted by the bridge (line 320), any other by the receiver
\* (line 89).
HandlerRaise(t, cls) ==
    /\ th[t].pc = "h_send"
    /\ IF cls = "handled"
       THEN /\ bridge' = [bridge EXCEPT !.error_count = @ + 1]
            /\ UNCHANGED rcv
       ELSE /\ rcv' = [rcv EXCEPT !.error_count = @ + 1]
            /\ UNCHANGED bridge
    /\ th' = [th EXCEPT ![t] = NoLocals(AfterHandlerException(cls))]
    /\ UNCHANGED <<snd, settings, conv, op, net, hist>>

\* ---------------------------- UDPMiddlewareBridge.update_conversion_settings
\* The settings object is updated key by key, a new dictionary is built from
\* it and the converter's reference is replaced by a copy of it.  The listen
\* threads read only the converter's reference, so the call is one step.
\* th.seen collects the dictionaries the converter has referred to while a
\* thread was inside process_message.
UpdateConversionSettings(p) ==
    /\ ApplyPartial(settings, p) # settings
    /\ settings' = ApplyPartial(settings, p)
    /\ conv' = [conv EXCEPT !.conversion_settings = ApplyPartial(settings, p)]
    /\ th' = [t \in Threads |->
                IF th[t].pc = "h_pairs"
                THEN [th[t] EXCEPT !.seen = @ \cup {ApplyPartial(settings, p)}]
                ELSE th[t]]
    /\ UNCHANGED <<bridge, rcv, snd, op, net, hist>>

\* ------------------------------------------------------------ get_status
\* MiddlewareUDPReceiver.get_status and MiddlewareUDPSender.get_status, the
\* flags: bool(self.socket) is true of any socket object, closed or not, and
\* false of None.
receiver_status == [bound |-> rcv.socket # "none", running |-> rcv.running]
sender_status == [active |-> snd.socket # "none", connected |-> snd.connected]

\* ------------------------------------------ UDPMiddlewareBridge._main_loop
\* _check_components without the test of messages_processed.
Warnings_NoGuard(stale) ==
    (IF ~rcv.running THEN {"receiver"} ELSE {})
    \cup (IF snd.socket = "none" THEN {"sender"} ELSE {})
    \cup (IF stale THEN {"nodata"} ELSE {})

\* The warnings _check_components logs at a poll; the age of the last
\* datagram is the environment's.
Warnings(stale) ==
    (IF ~rcv.running THEN {"receiver"} ELSE {})
    \cup (IF snd.socket = "none" THEN {"sender"} ELSE {})
    \cup (IF bridge.messages_processed > 0 /\ stale THEN {"nodata"} ELSE {})

\* One iteration of the supervisory loop, run by the event loop between the
\* bridge's operations: it reads and logs.
MainLoopPoll ==
    /\ bridge.main_task = "active"
    /\ op.pc = "idle"
    /\ UNCHANGED vars

\* ------------------------------------------------------------ specification
BridgeStep ==
    \/ StartAlreadyRunning
    \/ StartBegin
    \/ StartReceiverOk
    \/ StartReceiverFails
    \/ StartSenderOk
    \/ StartSenderFails
    \/ StopNotRunning
    \/ StopCall
    \/ StopMainTask
    \/ StopSender
    \/ StopReceiverFlag
    \/ StopReceiverJoin

ListenStep(t) ==
    \/ LoopCheck(t)
    \/ RecvTimeout(t)
    \/ RecvError(t)
    \/ \E m \in MsgIds : RecvDatagram(t, m)

HandlerStep(t) ==
    \/ HandlerBegin(t)
    \/ ConvPair(t)
    \/ HandlerSend(t)
    \/ \E cls \in {"handled", "other"} : HandlerRaise(t, cls)

\* The bridge with its conversion settings as loaded at construction.
Next ==
    \/ BridgeStep
    \/ \E t \in Threads : ListenStep(t)
    \/ \E t \in Threads : HandlerStep(t)
    \/ MainLoopPoll

Spec == Init /\ [][Next]_vars

\* The bridge with live reconfiguration of the conversions.
NextReconf ==
    \/ Next
    \/ \E p \in Partials : UpdateConversionSettings(p)

SpecReconf == Init /\ [][NextReconf]_vars

\* ------------------------------------------------------ the data path alone
\* The conversions sections a settings file can hold (load converts only the
\* type of a value): source units, supported targets, a target that is no
\* unit of its category, an empty target, conversions disabled.
PipeSettings ==
    InitialConversions \cup
    { [enabled |-> TRUE, altitude |-> "feet", speed |-> "kmh",
       vario |-> "fpm", acceleration |-> "fps2"],
      [enabled |-> FALSE, altitude |-> "feet", speed |-> "knots",
       vario |-> "fpm", acceleration |-> "fps2"],
      [enabled |-> FALSE, altitude |-> "yards", speed |-> "kmh",
       vario |-> "mps", acceleration |-> "mps2"],
      [enabled |-> TRUE, altitude |-> "yards", speed |-> "knots",
       vario |-> "fpm", acceleration |-> "mps2"],
      [enabled |-> TRUE, altitude |-> "", speed |-> "kmh",
       vario |-> "mps", acceleration |-> "fps2"] }

\* A bridge constructed from one of these settings, after a start() that
\* succeeded: receiver bound with its thread at the head of the loop, sender
\* open, supervisory task active.
InitPipe ==
    /\ bridge = [running |-> TRUE, error_count |-> 0, messages_processed |-> 0,
                 messages_converted |-> 0, messages_forwarded |-> 0,
                 main_task |-> "active"]
    /\ rcv = [socket |-> "open", running |-> TRUE, receive_thread |-> 1,
              messages_received |-> 0, error_count |-> 0]
    /\ snd \in {[socket |-> "open", connected |-> c, messages_sent |-> 0,
                 error_count |-> 0] : c \in BOOLEAN}
    /\ settings \in PipeSettings
    /\ conv = [conversion_settings |-> settings,
               conversions_applied |-> 0, variables_converted |-> {}]
    /\ th = [t \in Threads |->
                IF t = 1 THEN NoLocals("check") ELSE NoLocals("unborn")]
    /\ op = [NewOp("start", "idle") EXCEPT !.sender_called = TRUE,
                                           !.task_launched = TRUE]
    /\ net = [starts |-> 1, delivered |-> 0, last |-> 0]
    /\ hist = [last_start |-> "ok"]

\* The listen thread with every kind of datagram, and the handler.
NextPipe ==
    \/ \E t \in Threads : LoopCheck(t)
    \/ \E t \in Threads : RecvTimeout(t)
    \/ \E t \in Threads : RecvError(t)
    \/ \E t \in Threads : \E m \in DatagramIds : RecvDatagram(t, m)
    \/ \E t \in Threads : HandlerStep(t)

SpecPipe == InitPipe /\ [][NextPipe]_vars

\* The data path with live reconfiguration of the conversions.
NextPipeReconf ==
    \/ NextPipe
    \/ \E p \in Partials : UpdateConversionSettings(p)

SpecPipeReconf == InitPipe /\ [][NextPipeReconf]_vars

\* ------------------------------------- UDPMiddlewareBridge.update_settings
\* update_settings is called from a thread of its own (the GUI's): it runs
\* stop() and start() on event loops it creates and closes.  No datagram
\* arrives while it runs.  hist.reload is its position ("stopping",
\* "loading", "rebuilt") or how the last call ended ("true", "false",
\* "raised"); bridge.main_task = "orphan" is a supervisory task that is
\* pending on a loop that has been closed.
InitReload ==
    /\ \/ /\ bridge = [running |-> TRUE, error_count |-> 0,
                        messages_processed |-> 0, messages_converted |-> 0,
                        messages_forwarded |-> 0, main_task |-> "active"]
          /\ rcv = [socket |-> "open", running |-> TRUE, receive_thread |-> 1,
                    messages_received |-> 0, error_count |-> 0]
          /\ snd = [socket |-> "open", connected |-> TRUE, messages_sent |-> 0,
                    error_count |-> 0]
          /\ th = [t \in Threads |->
                      IF t = 1 THEN NoLocals("check") ELSE NoLocals("unborn")]
          /\ op = [NewOp("start", "idle") EXCEPT !.sender_called = TRUE,
                                                 !.task_launched = TRUE]
          /\ net = [starts |-> 1, delivered |-> 0, last |-> 0]
          /\ hist = [last_start |-> "ok", reload |-> "none",
                     was_running |-> FALSE, reloads |-> 0]
       \/ /\ bridge = [running |-> FALSE, error_count |-> 0,
                        messages_processed |-> 0, messages_converted |-> 0,
                        messages_forwarded |-> 0, main_task |-> "none"]
          /\ rcv = [socket |-> "none", running |-> FALSE, receive_thread |-> 0,
                    messages_received |-> 0, error_count |-> 0]
          /\ snd = [socket |-> "none", connected |-> FALSE, messages_sent |-> 0,
                    error_count |-> 0]
          /\ th = [t \in Threads |-> NoLocals("unborn")]
          /\ op = NewOp("none", "idle")
          /\ net = [starts |-> 0, delivered |-> 0, last |-> 0]
          /\ hist = [last_start |-> "none", reload |-> "none",
                     was_running |-> FALSE, reloads |-> 0]
    /\ settings \in InitialConversions
    /\ conv = [conversion_settings |-> settings,
               conversions_applied |-> 0, variables_converted |-> {}]

\* Lines 520-525: was_running is taken and, on a running bridge, stop() is
\* started on a new event loop.
ReloadCall ==
    /\ op.pc = "idle"
    /\ hist.reload \notin {"stopping", "loading", "rebuilt"}
    /\ hist.reloads < MaxReloads
    /\ hist' = [hist EXCEPT !.reloads = @ + 1, !.was_running = bridge.running,
                            !.reload = IF bridge.running THEN "stopping"
                                       ELSE "loading"]
    /\ op' = IF bridge.running THEN NewOp("stop", "stop_begin") ELSE op
    /\ UNCHANGED <<bridge, rcv, snd, settings, conv, th, net>>

\* stop() lines 377-385 run on the new loop while the supervisory task is
\* pending on another one: running is cleared, and cancel() (when the task's
\* loop is closed) or `await self.main_task` (the task belongs to a different
\* loop) raises RuntimeError, which leaves stop() and update_settings.  The
\* task on a loop that still runs ends by the cancellation.
ReloadStopRaises ==
    /\ op.pc = "stop_begin"
    /\ op.kind = "stop"
    /\ bridge.main_task \in {"active", "orphan"}
    /\ bridge' = [bridge EXCEPT !.running = FALSE,
                    !.main_task = IF @ = "active" THEN "done" ELSE @]
    /\ op' = [op EXCEPT !.pc = "idle"]
    /\ hist' = [hist EXCEPT !.reload = "raised"]
    /\ UNCHANGED <<rcv, snd, settings, conv, th, net>>

\* stop() lines 377-385 when the await returns: the task had ended, or its
\* loop ran the cancellation between cancel() and the await.
ReloadStopTask ==
    /\ bridge.main_task # "orphan"
    /\ StopMainTask

\* Lines 527-535: settings.load fails and update_settings returns False.
ReloadLoadFails ==
    /\ op.pc = "idle"
    /\ hist.reload \in {"stopping", "loading"}
    /\ hist' = [hist EXCEPT !.reload = "false"]
    /\ UNCHANGED <<bridge, rcv, snd, settings, conv, th, op, net>>

\* Lines 527-541: the settings are loaded and _init_components builds a new
\* receiver, converter and sender from them.
ReloadRebuild ==
    /\ op.pc = "idle"
    /\ hist.reload \in {"stopping", "loading"}
    /\ \E loaded \in PipeSettings :
          /\ settings' = loaded
          /\ conv' = [conversion_settings |-> loaded,
                      conversions_applied |-> 0, variables_converted |-> {}]
    /\ rcv' = [socket |-> "none", running |-> FALSE, receive_thread |-> 0,
               messages_received |-> 0, error_count |-> 0]
    /\ snd' = [socket |-> "none", connected |-> FALSE, messages_sent |-> 0,
               error_count |-> 0]
    /\ hist' = [hist EXCEPT !.reload = "rebuilt", !.last_start = "none"]
    /\ UNCHANGED <<bridge, th, op, net>>

\* Lines 544-548: start() is run on another new event loop.
ReloadRestart ==
    /\ hist.reload = "rebuilt"
    /\ hist.was_running
    /\ hist.last_start = "none"
    /\ StartBegin

\* Lines 549-552: the loop start() ran on is closed, with the supervisory
\* task start() created on it, and update_settings returns True.
ReloadReturn ==
    /\ op.pc = "idle"
    /\ hist.reload = "rebuilt"
    /\ hist.was_running => hist.last_start \in {"ok", "failed"}
    /\ hist' = [hist EXCEPT !.reload = "true"]
    /\ bridge' = [bridge EXCEPT
                    !.main_task = IF hist.was_running /\ @ = "active"
                                  THEN "orphan" ELSE @]
    /\ UNCHANGED <<rcv, snd, settings, conv, th, op, net>>

NextReload ==
    \/ ReloadCall
    \/ ReloadStopRaises
    \/ ReloadStopTask
    \/ StopSender
    \/ StopReceiverFlag
    \/ StopReceiverJoin
    \/ ReloadLoadFails
    \/ ReloadRebuild
    \/ ReloadRestart
    \/ StartReceiverOk
    \/ StartReceiverFails
    \/ StartSenderOk
    \/ StartSenderFails
    \/ ReloadReturn
    \/ \E t \in Threads : LoopCheck(t)
    \/ \E t \in Threads : RecvTimeout(t)
    \/ \E t \in Threads : RecvError(t)
    \/ MainLoopPoll

SpecReload == InitReload /\ [][NextReload]_vars

\* ------------------------------------------------- the converter on its own
\* One variable with one value converted by a converter constructed from one
\* of the settings files.  Here a value v stands for v tenths (-25 is -2.5)
\* and a result is a count of 1e-6 (-492125000 is -492.125); the operators
\* above multiply and so do not depend on the unit of their input.
FactorVariables == DOMAIN variable_mappings \cup {"time"}
FactorValues == {-25, 0, 1, 100, 300, 1000}

\* The inputs whose product with the factor of their category is an integer
\* TLC can hold (below 2^31): a vario of at most 10.0.
FactorInputs ==
    {in \in FactorVariables \X FactorValues :
        in[1] = "vario" => in[2] <= 100}

InitFactors ==
    /\ bridge = [running |-> FALSE, error_count |-> 0, messages_processed |-> 0,
                 messages_converted |-> 0, messages_forwarded |-> 0,
                 main_task |-> "none"]
    /\ rcv = [socket |-> "none", running |-> FALSE, receive_thread |-> 0,
              messages_received |-> 0, error_count |-> 0]
    /\ snd = [socket |-> "none", connected |-> FALSE, messages_sent |-> 0,
              error_count |-> 0]
    /\ settings \in PipeSettings
    /\ conv = [conversion_settings |-> settings,
               conversions_applied |-> 0, variables_converted |-> {}]
    /\ th = [t \in Threads |-> NoLocals("unborn")]
    /\ op = NewOp("none", "idle")
    /\ net = [starts |-> 0, delivered |-> 0, last |-> 0]
    /\ hist \in {[last_start |-> "none", variable |-> in[1], value |-> in[2],
                   done |-> FALSE, out |-> << >>, conv |-> << >>] :
                      in \in FactorInputs}

\* process_message on the text "variable=value": the dictionary of its one
\* pair through _apply_conversions, and the converter's statistics.
ProcessOne ==
    /\ ~hist.done
    /\ LET r == ApplyConversionsWith(<< <<hist.variable, hist.value>> >>,
                                     conv.conversion_settings)
       IN  /\ hist' = [hist EXCEPT !.done = TRUE, !.out = r.out,
                                   !.conv = r.conv]
           /\ conv' = StatsAfter(r.conv)
    /\ UNCHANGED <<bridge, rcv, snd, settings, th, op, net>>

NextFactors == ProcessOne

SpecFactors == InitFactors /\ [][NextFactors]_vars

\* A converter called by one caller, one call after the other: process_message
\* on the text of any datagram and reset_statistics.  hist keeps what the
\* caller has seen: the number of calls, the sum of conversions_applied and
\* the union of variables_converted of the records returned since the last
\* reset, and the total the last reset found.
InitStats ==
    /\ bridge = [running |-> FALSE, error_count |-> 0, messages_processed |-> 0,
                 messages_converted |-> 0, messages_forwarded |-> 0,
                 main_task |-> "none"]
    /\ rcv = [socket |-> "none", running |-> FALSE, receive_thread |-> 0,
              messages_received |-> 0, error_count |-> 0]
    /\ snd = [socket |-> "none", connected |-> FALSE, messages_sent |-> 0,
              error_count |-> 0]
    /\ settings \in PipeSettings
    /\ conv = [conversion_settings |-> settings,
               conversions_applied |-> 0, variables_converted |-> {}]
    /\ th = [t \in Threads |-> NoLocals("unborn")]
    /\ op = NewOp("none", "idle")
    /\ net = [starts |-> 0, delivered |-> 0, last |-> 0]
    /\ hist = [last_start |-> "none", calls |-> 0, last_call |-> "none",
               returned_total |-> 0, returned_variables |-> {},
               cleared |-> 0]

\* The record process_message returns for the text of datagram m: the names
\* in variables_converted (none in the record of a text without pairs, which
\* has only the key "error").
RecordOf(m) ==
    IF data_dict(m) = << >> THEN << >>
    ELSE ApplyConversionsWith(data_dict(m), conv.conversion_settings).conv

\* process_message(text of datagram m), lines 99-119.
ProcessMessage(m) ==
    /\ hist.calls < MaxCalls
    /\ conv' = StatsAfter(RecordOf(m))
    /\ hist' = [hist EXCEPT
                  !.calls = @ + 1, !.last_call = "process_message",
                  !.returned_total = @ + Len(RecordOf(m)),
                  !.returned_variables =
                      @ \cup {RecordOf(m)[i] : i \in 1..Len(RecordOf(m))}]
    /\ UNCHANGED <<bridge, rcv, snd, settings, th, op, net>>

\* reset_statistics, lines 302-306.
ResetStatistics ==
    /\ hist.calls < MaxCalls
    /\ conv' = [conv EXCEPT !.conversions_applied = 0,
                            !.variables_converted = {}]
    /\ hist' = [hist EXCEPT !.calls = @ + 1, !.last_call = "reset_statistics",
                            !.returned_total = 0, !.returned_variables = {},
                            !.cleared = conv.conversions_applied]
    /\ UNCHANGED <<bridge, rcv, snd, settings, th, op, net>>

NextStats ==
    \/ \E m \in DatagramIds : ProcessMessage(m)
    \/ ResetStatistics

SpecStats == InitStats /\ [][NextStats]_vars

\* --------------------------------------------------- the sender on its own
\* A MiddlewareUDPSender called by one caller, one call after the other, in
\* every state it can be in: never opened, open, closed.  hist keeps the
\* number of calls, the last call and what it returned.
InitSender ==
    /\ bridge = [running |-> FALSE, error_count |-> 0, messages_processed |-> 0,
                 messages_converted |-> 0, messages_forwarded |-> 0,
                 main_task |-> "none"]
    /\ rcv = [socket |-> "none", running |-> FALSE, receive_thread |-> 0,
              messages_received |-> 0, error_count |-> 0]
    /\ snd = [socket |-> "none", connected |-> FALSE, messages_sent |-> 0,
              error_count |-> 0]
    /\ settings \in InitialConversions
    /\ conv = [conversion_settings |-> settings,
               conversions_applied |-> 0, variables_converted |-> {}]
    /\ th = [t \in Threads |-> NoLocals("unborn")]
    /\ op = NewOp("none", "idle")
    /\ net = [starts |-> 0, delivered |-> 0, last |-> 0]
    /\ hist = [last_start |-> "none", calls |-> 0, last_call |-> "none",
               returned |-> FALSE]

SenderCalled(call, result) ==
    /\ hist.calls < MaxCalls
    /\ hist' = [hist EXCEPT !.calls = @ + 1, !.last_call = call,
                            !.returned = result]
    /\ UNCHANGED <<bridge, rcv, settings, conv, th, op, net>>

\* start_sending() returning True, with the target validated or not.
SenderStartOk ==
    /\ \E validated \in BOOLEAN : start_sending_ok(validated)
    /\ SenderCalled("start_sending", TRUE)

\* start_sending() returning False.
SenderStartFails ==
    /\ start_sending_fails
    /\ SenderCalled("start_sending", FALSE)

\* send_message(message): True when the datagram was transmitted.
SenderSend ==
    \E outcome \in SendOutcomes :
        /\ send_message(outcome)
        /\ SenderCalled("send_message", outcome = "sent")

\* close().
SenderClose ==
    /\ sender_close
    /\ SenderCalled("close", TRUE)

NextSender ==
    \/ SenderStartOk
    \/ SenderStartFails
    \/ SenderSend
    \/ SenderClose

SpecSender == InitSender /\ [][NextSender]_vars

\* ------------------------------------- udp_io/udp_sender.py: class UDPSender
\* The queued sender on its own: one caller making one call after the other
\* (position in `op`), and the send threads start_sending spawns (position
\* and the message taken in `th`).  snd holds the sender's fields, with
\* message_queue the queue.Queue as a sequence and send_thread the number of
\* the thread last started (0 for None).  Messages queued are numbered in the
\* order they are offered; a message sent synchronously is message 0.
\* net.wire is what was transmitted (message and target), in order; hist
\* keeps the calls made, the last two calls and what the last returned,
\* whether the sender was running when it was made, and the messages
\* accepted, taken from the queue and failed, in order.
SendThreads == 1..MaxSendThreads

Targets == {1, 2}

SendLocals(pc, message) == [pc |-> pc, message |-> message]

SendAlive(t) == th[t].pc \notin {"unborn", "done"}

InitUDPSender ==
    /\ bridge = [running |-> FALSE, error_count |-> 0, messages_processed |-> 0,
                 messages_converted |-> 0, messages_forwarded |-> 0,
                 main_task |-> "none"]
    /\ rcv = [socket |-> "none", running |-> FALSE, receive_thread |-> 0,
              messages_received |-> 0, error_count |-> 0]
    /\ snd = [socket |-> "none", connected |-> FALSE, running |-> FALSE,
              messages_sent |-> 0, error_count |-> 0,
              message_queue |-> << >>, send_thread |-> 0, target |-> 1]
    /\ settings = DefaultConversions
    /\ conv = [conversion_settings |-> settings,
               conversions_applied |-> 0, variables_converted |-> {}]
    /\ th = [t \in SendThreads |-> SendLocals("unborn", 0)]
    /\ op = [kind |-> "none", pc |-> "idle", target |-> 1]
    /\ net = [wire |-> << >>]
    /\ hist = [calls |-> 0, last_call |-> "none", prev_call |-> "none",
               returned |-> FALSE, was_running |-> FALSE, offered |-> 0,
               accepted |-> << >>, taken |-> << >>, failed |-> << >>]

\* A call of the caller returns `result`.
UDPSenderReturns(call, result, was_running) ==
    [hist EXCEPT !.calls = @ + 1, !.last_call = call,
                 !.prev_call = hist.last_call, !.returned = result,
                 !.was_running = was_running]

\* The caller is between two calls and may make another.
UDPSenderIdle == op.pc = "idle" /\ hist.calls < MaxCalls

\* The threads started so far.
SendThreadsStarted == Cardinality({t \in SendThreads : th[t].pc # "unborn"})

\* open(), lines 68-87: a new socket; connect validates the target or not.
UDPSender_open(s, validated) ==
    [s EXCEPT !.socket = "open", !.connected = validated]

\* start_sending(), lines 119-127, on the sender fields s: open() is called
\* only when self.socket is falsy, and a socket object that was closed is
\* not; then the flag is set and a new thread started.
UDPSender_start_sending(s, validated) ==
    [(IF s.socket = "none" THEN UDPSender_open(s, validated) ELSE s)
        EXCEPT !.running = TRUE, !.send_thread = SendThreadsStarted + 1]

\* start_sending() returning True.
UDPSenderStartSending ==
    /\ UDPSenderIdle
    /\ SendThreadsStarted < MaxSendThreads
    /\ \E validated \in (IF snd.socket = "none" THEN BOOLEAN
                         ELSE {snd.connected}) :
          snd' = UDPSender_start_sending(snd, validated)
    /\ th' = [th EXCEPT ![SendThreadsStarted + 1] = SendLocals("enter", 0)]
    /\ hist' = UDPSenderReturns("start_sending", TRUE, snd.running)
    /\ UNCHANGED <<bridge, rcv, settings, conv, op, net>>

\* start_sending() returning False: open() could not create the socket
\* (lines 89-92, 120-121).
UDPSenderStartSendingFails ==
    /\ UDPSenderIdle
    /\ snd.socket = "none"
    /\ snd' = [snd EXCEPT !.error_count = @ + 1]
    /\ hist' = UDPSenderReturns("start_sending", FALSE, snd.running)
    /\ UNCHANGED <<bridge, rcv, settings, conv, th, op, net>>

\* What sendto can do, lines 139-165: "no_socket" (False before any
\* attempt), "sent", or "oserror" (counted).  sendto on a closed socket
\* always raises; on an open one it may.
UDPSenderOutcomes ==
    IF snd.socket = "none" THEN {"no_socket"}
    ELSE IF snd.socket = "closed" THEN {"oserror"}
    ELSE {"sent", "oserror"}

\* send_message(message), lines 139-165.
UDPSender_send_message(message, outcome) ==
    /\ snd' = [snd EXCEPT
                 !.messages_sent = IF outcome = "sent" THEN @ + 1 ELSE @,
                 !.error_count = IF outcome = "oserror" THEN @ + 1 ELSE @]
    /\ net' = [net EXCEPT
                 !.wire = IF outcome = "sent"
                          THEN Append(@, <<message, snd.target>>) ELSE @]

\* send_message called by the caller.
UDPSenderSendMessage ==
    /\ UDPSenderIdle
    /\ \E outcome \in UDPSenderOutcomes :
          /\ UDPSender_send_message(0, outcome)
          /\ hist' = UDPSenderReturns("send_message", outcome = "sent",
                                      snd.running)
    /\ UNCHANGED <<bridge, rcv, settings, conv, th, op>>

\* send_message_async(message), lines 177-187.  The queue has no maximum
\* size (line 47), so put never raises queue.Full.
UDPSenderSendAsync ==
    /\ UDPSenderIdle
    /\ hist.offered < MaxQueued
    /\ LET m == hist.offered + 1
           h == [UDPSenderReturns("send_message_async", snd.running,
                                  snd.running) EXCEPT !.offered = m]
       IN IF snd.running
          THEN /\ snd' = [snd EXCEPT !.message_queue = Append(@, m)]
               /\ hist' = [h EXCEPT !.accepted = Append(@, m)]
          ELSE /\ snd' = snd
               /\ hist' = h
    /\ UNCHANGED <<bridge, rcv, settings, conv, th, op, net>>

\* close(), line 96; and set_target on a running sender, lines 270-274,
\* which begins with close().
UDPSenderCloseCall ==
    /\ UDPSenderIdle
    /\ snd' = [snd EXCEPT !.running = FALSE]
    /\ op' = [op EXCEPT !.kind = "close", !.pc = "close_join"]
    /\ hist' = [hist EXCEPT !.was_running = snd.running]
    /\ UNCHANGED <<bridge, rcv, settings, conv, th, net>>

UDPSenderSetTargetRunning ==
    /\ UDPSenderIdle
    /\ snd.running
    /\ SendThreadsStarted < MaxSendThreads
    /\ \E target \in Targets :
          op' = [kind |-> "set_target", pc |-> "close_join",
                 target |-> target]
    /\ snd' = [snd EXCEPT !.running = FALSE]
    /\ hist' = [hist EXCEPT !.was_running = TRUE]
    /\ UNCHANGED <<bridge, rcv, settings, conv, th, net>>

\* set_target on a sender that is not running, lines 270-284: only the
\* target changes.
UDPSenderSetTargetIdle ==
    /\ UDPSenderIdle
    /\ ~snd.running
    /\ \E target \in Targets : snd' = [snd EXCEPT !.target = target]
    /\ hist' = UDPSenderReturns("set_target", TRUE, FALSE)
    /\ UNCHANGED <<bridge, rcv, settings, conv, th, op, net>>

\* close(), lines 99-100: the send thread is joined.  The join gives up
\* after 2 s; the loop looks at the flag every 0.1 s, so the thread has ended
\* by then.
UDPSenderCloseJoin ==
    /\ op.pc = "close_join"
    /\ IF snd.send_thread = 0 THEN TRUE ELSE ~SendAlive(snd.send_thread)
    /\ op' = [op EXCEPT !.pc = "close_socket"]
    /\ UNCHANGED <<bridge, rcv, snd, settings, conv, th, net, hist>>

\* close(), lines 103-110: the socket object is closed and kept; close()
\* returns.
UDPSender_close(s) ==
    [s EXCEPT !.socket = IF @ = "none" THEN "none" ELSE "closed",
              !.connected = FALSE]

UDPSenderCloseSocket ==
    /\ op.pc = "close_socket"
    /\ op.kind = "close"
    /\ snd' = UDPSender_close(snd)
    /\ op' = [op EXCEPT !.kind = "none", !.pc = "idle"]
    /\ hist' = UDPSenderReturns("close", TRUE, hist.was_running)
    /\ UNCHANGED <<bridge, rcv, settings, conv, th, net>>

\* set_target, lines 274-282, when its close() has joined the thread: the
\* socket is closed, the target set and start_sending's result returned.
UDPSenderSetTargetRestart ==
    /\ op.pc = "close_socket"
    /\ op.kind = "set_target"
    /\ snd' = UDPSender_start_sending(
                  [UDPSender_close(snd) EXCEPT !.target = op.target],
                  FALSE)
    /\ th' = [th EXCEPT ![SendThreadsStarted + 1] = SendLocals("enter", 0)]
    /\ op' = [op EXCEPT !.kind = "none", !.pc = "idle"]
    /\ hist' = UDPSenderReturns("set_target", TRUE, TRUE)
    /\ UNCHANGED <<bridge, rcv, settings, conv, net>>

\* _send_loop, lines 194-196.
SendLoopEnter(t) ==
    /\ th[t].pc = "enter"
    /\ th' = [th EXCEPT ![t].pc = IF snd.socket = "none" THEN "done"
                                  ELSE "check"]
    /\ UNCHANGED <<bridge, rcv, snd, settings, conv, op, net, hist>>

\* `while self.running:`, line 200; the loop ends without looking at the
\* queue.
SendLoopCheck(t) ==
    /\ th[t].pc = "check"
    /\ th' = [th EXCEPT ![t].pc = IF snd.running THEN "get" ELSE "done"]
    /\ UNCHANGED <<bridge, rcv, snd, settings, conv, op, net, hist>>

\* message_queue.get(timeout=0.1), lines 203-206: the oldest message, or
\* queue.Empty after 0.1 s and `continue`.
SendLoopGet(t) ==
    /\ th[t].pc = "get"
    /\ IF snd.message_queue = << >>
       THEN /\ th' = [th EXCEPT ![t].pc = "check"]
            /\ UNCHANGED <<snd, hist>>
       ELSE /\ th' = [th EXCEPT ![t] = SendLocals("send",
                                                  Head(snd.message_queue))]
            /\ snd' = [snd EXCEPT !.message_queue = Tail(@)]
            /\ hist' = [hist EXCEPT
                          !.taken = Append(@, Head(snd.message_queue))]
    /\ UNCHANGED <<bridge, rcv, settings, conv, op, net>>

\* Lines 209-213: the message is sent; a failure is logged (send_message
\* has counted it).
SendLoopSend(t) ==
    /\ th[t].pc = "send"
    /\ \E outcome \in UDPSenderOutcomes :
          /\ UDPSender_send_message(th[t].message, outcome)
          /\ hist' = [hist EXCEPT
                        !.failed = IF outcome = "sent" THEN @
                                   ELSE Append(@, th[t].message)]
    /\ th' = [th EXCEPT ![t] = SendLocals("check", 0)]
    /\ UNCHANGED <<bridge, rcv, settings, conv, op>>

SendThreadStep(t) ==
    \/ SendLoopEnter(t)
    \/ SendLoopCheck(t)
    \/ SendLoopGet(t)
    \/ SendLoopSend(t)

UDPSenderCallStep ==
    \/ UDPSenderCloseJoin
    \/ UDPSenderCloseSocket
    \/ UDPSenderSetTargetRestart

NextUDPSender ==
    \/ UDPSenderStartSending
    \/ UDPSenderStartSendingFails
    \/ UDPSenderSendMessage
    \/ UDPSenderSendAsync
    \/ UDPSenderCloseCall
    \/ UDPSenderSetTargetRunning
    \/ UDPSenderSetTargetIdle
    \/ UDPSenderCallStep
    \/ \E t \in SendThreads : SendThreadStep(t)

SpecUDPSender == InitUDPSender /\ [][NextUDPSender]_vars

\* Every send thread is scheduled and a call that was made goes on; nothing
\* makes the caller call again.
FairSpecUDPSender ==
    /\ SpecUDPSender
    /\ \A t \in SendThreads : WF_vars(SendThreadStep(t))
    /\ WF_vars(UDPSenderCallStep)

\* ------------------------------------------- the supervisory loop's polls
\* The running bridge of InitPipe with the log of its supervisory loop: hist
\* keeps the number of polls, whether at the last poll more than 10 s had
\* passed since the receiver's last_received_time, and the warnings that poll
\* logged.
InitPoll ==
    /\ bridge = [running |-> TRUE, error_count |-> 0, messages_processed |-> 0,
                 messages_converted |-> 0, messages_forwarded |-> 0,
                 main_task |-> "active"]
    /\ rcv = [socket |-> "open", running |-> TRUE, receive_thread |-> 1,
              messages_received |-> 0, error_count |-> 0]
    /\ snd \in {[socket |-> "open", connected |-> c, messages_sent |-> 0,
                 error_count |-> 0] : c \in BOOLEAN}
    /\ settings \in InitialConversions
    /\ conv = [conversion_settings |-> settings,
               conversions_applied |-> 0, variables_converted |-> {}]
    /\ th = [t \in Threads |->
                IF t = 1 THEN NoLocals("check") ELSE NoLocals("unborn")]
    /\ op = [NewOp("start", "idle") EXCEPT !.sender_called = TRUE,
                                           !.task_launched = TRUE]
    /\ net = [starts |-> 1, delivered |-> 0, last |-> 0]
    /\ hist = [last_start |-> "ok", polls |-> 0, stale |-> FALSE,
               warnings |-> {}]

\* Whether more than 10 s have passed since last_received_time (line 439-440)
\* is the clock's choice once a datagram was counted; before that
\* last_received_time is 0 and the age is the time since 1970.
Ages == IF rcv.messages_received = 0 THEN {TRUE} ELSE BOOLEAN

\* One iteration of `while self.running:` in _main_loop (lines 408-410):
\* _check_components logs its warnings.
MainLoopCheck(stale) ==
    /\ bridge.main_task = "active"
    /\ bridge.running
    /\ op.pc = "idle"
    /\ hist.polls < MaxPolls
    /\ stale \in Ages
    /\ hist' = [hist EXCEPT !.polls = @ + 1, !.stale = stale,
                            !.warnings = Warnings(stale)]
    /\ UNCHANGED <<bridge, rcv, snd, settings, conv, th, op, net>>

NextPoll ==
    \/ NextPipe
    \/ \E stale \in BOOLEAN : MainLoopCheck(stale)

SpecPoll == InitPoll /\ [][NextPoll]_vars

\* --------------------------------------------------- every call recorded
\* The bridge of Spec with every call of start() and stop() recorded in hist,
\* also the calls that return at once: hist.last_call is the last call made
\* and hist.redundant the number of calls that found nothing to do.
InitLifecycle ==
    /\ bridge = [running |-> FALSE, error_count |-> 0, messages_processed |-> 0,
                 messages_converted |-> 0, messages_forwarded |-> 0,
                 main_task |-> "none"]
    /\ rcv = [socket |-> "none", running |-> FALSE, receive_thread |-> 0,
              messages_received |-> 0, error_count |-> 0]
    /\ snd = [socket |-> "none", connected |-> FALSE, messages_sent |-> 0,
              error_count |-> 0]
    /\ settings \in InitialConversions
    /\ conv = [conversion_settings |-> settings,
               conversions_applied |-> 0, variables_converted |-> {}]
    /\ th = [t \in Threads |-> NoLocals("unborn")]
    /\ op = NewOp("none", "idle")
    /\ net = [starts |-> 0, delivered |-> 0, last |-> 0]
    /\ hist = [last_start |-> "none", last_call |-> "none", redundant |-> 0]

\* start() going on whatever the running flag says.
StartIsRedundant_Never == FALSE

\* `if self.running:` (line 324) and `if not self.running:` (line 372).
StartIsRedundant == bridge.running
StopIsRedundant == ~bridge.running

\* A call that returns after its warning.
RedundantCall(call) ==
    /\ hist.redundant < MaxRedundant
    /\ hist' = [hist EXCEPT !.redundant = @ + 1, !.last_call = call]
    /\ UNCHANGED <<bridge, rcv, snd, settings, conv, th, op, net>>

\* start() called, lines 324-336.
StartCalled ==
    /\ op.pc = "idle"
    /\ IF StartIsRedundant
       THEN RedundantCall("start")
       ELSE /\ net.starts < MaxStarts
            /\ net' = [net EXCEPT !.starts = @ + 1]
            /\ bridge' = [bridge EXCEPT !.running = TRUE, !.error_count = 0,
                                        !.messages_processed = 0,
                                        !.messages_converted = 0,
                                        !.messages_forwarded = 0]
            /\ op' = NewOp("start", "start_recv")
            /\ hist' = [hist EXCEPT !.last_start = "pending",
                                    !.last_call = "start"]
            /\ UNCHANGED <<rcv, snd, settings, conv, th>>

\* stop() called, lines 372-376.
StopCalled ==
    /\ op.pc = "idle"
    /\ IF StopIsRedundant
       THEN RedundantCall("stop")
       ELSE /\ op' = NewOp("stop", "stop_begin")
            /\ hist' = [hist EXCEPT !.last_call = "stop"]
            /\ UNCHANGED <<bridge, rcv, snd, settings, conv, th, net>>

\* Scheduling: a bridge operation that has been called goes on with its next
\* statement, and a listen thread outside the handler takes its next step
\* (recvfrom returns within SOCKET_TIMEOUT).  Nothing makes a handler
\* invocation return.
OpStep ==
    \/ StartReceiverOk
    \/ StartReceiverFails
    \/ StartSenderOk
    \/ StartSenderFails
    \/ StopMainTask
    \/ StopSender
    \/ StopReceiverFlag
    \/ StopReceiverJoin

FairSpec ==
    /\ Spec
    /\ WF_vars(OpStep)
    /\ \A t \in Threads : WF_vars(ListenStep(t))

\* The bridge with its calls recorded: the calls, the statements of the
\* operations in progress, the listen threads and the supervisory loop.
NextLifecycle ==
    \/ StartCalled
    \/ StopCalled
    \/ OpStep
    \/ \E t \in Threads : ListenStep(t)
    \/ \E t \in Threads : HandlerStep(t)
    \/ MainLoopPoll

SpecLifecycle == InitLifecycle /\ [][NextLifecycle]_vars

\* ------------------------------- gui/main_window.py: the start/stop button
\* The bridge of Spec driven by MiddlewareMainWindow.  In this specification
\* hist holds the window besides last_start: the button's text and state,
\* the status bar ("ready", "starting", "running", "stopping", "stopped",
\* "error"), bridge_thread ("none" for None, "new" for a thread that has not
\* reached line 406, "start" inside run_until_complete(bridge.start()),
\* "forever" inside loop.run_forever()), loop (0 for None, else the number of
\* the event loop), the callbacks handed to master.after in the order they
\* come due, the bridge.stop() coroutines submitted to the loop and not yet
\* run, and the clicks made.  The window has its bridge (_init_bridge has
\* succeeded).
InitWindow ==
    /\ bridge = [running |-> FALSE, error_count |-> 0, messages_processed |-> 0,
                 messages_converted |-> 0, messages_forwarded |-> 0,
                 main_task |-> "none"]
    /\ rcv = [socket |-> "none", running |-> FALSE, receive_thread |-> 0,
              messages_received |-> 0, error_count |-> 0]
    /\ snd = [socket |-> "none", connected |-> FALSE, messages_sent |-> 0,
              error_count |-> 0]
    /\ settings \in InitialConversions
    /\ conv = [conversion_settings |-> settings,
               conversions_applied |-> 0, variables_converted |-> {}]
    /\ th = [t \in Threads |-> NoLocals("unborn")]
    /\ op = NewOp("none", "idle")
    /\ net = [starts |-> 0, delivered |-> 0, last |-> 0]
    /\ hist = [last_start |-> "none", button_text |-> "Start Middleware",
               button_state |-> "normal", status_bar |-> "ready",
               bridge_thread |-> "none", loop |-> 0, after |-> << >>,
               stop_submitted |-> 0, toggles |-> 0]

\* self.bridge_thread and self.bridge_thread.is_alive(), lines 389 and 486.
\* run_bridge ends only when bridge.start() raises or run_forever returns;
\* start() catches nothing it could raise in this model and nothing calls
\* loop.stop(), so a thread that was started stays alive.
bridge_thread_is_alive == hist.bridge_thread \in {"new", "start", "forever"}

\* _on_bridge_stopped, lines 494-495.
_on_bridge_stopped(h) ==
    [h EXCEPT !.button_text = "Start Middleware", !.button_state = "normal",
              !.status_bar = "stopped"]

\* _poll_bridge_stopped, lines 484-490, on the window h.
_poll_bridge_stopped(h) ==
    IF ~bridge.running THEN _on_bridge_stopped(h)
    ELSE IF h.bridge_thread # "none" /\ ~bridge_thread_is_alive
    THEN _on_bridge_stopped(h)
    ELSE [h EXCEPT !.after = Append(@, "_poll_bridge_stopped")]

\* _start_bridge, lines 399-433: the button is disabled and a new thread
\* started.
_start_bridge(h) ==
    [h EXCEPT !.button_state = "disabled", !.status_bar = "starting",
              !.bridge_thread = "new"]

\* _stop_bridge, lines 460-480: nothing without a loop; else the button is
\* disabled, bridge.stop() is submitted to the loop of the bridge thread and
\* the first poll made.
_stop_bridge(h) ==
    IF h.loop = 0 THEN h
    ELSE _poll_bridge_stopped(
             [h EXCEPT !.button_state = "disabled",
                       !.status_bar = "stopping",
                       !.stop_submitted = @ + 1])

\* _toggle_bridge, lines 389-394.
_toggle_bridge(h) ==
    IF h.bridge_thread # "none" /\ bridge_thread_is_alive
    THEN _stop_bridge(h)
    ELSE _start_bridge(h)

\* The user clicks the button (a disabled button takes no click).
ToggleClicked ==
    /\ hist.button_state = "normal"
    /\ hist.toggles < MaxToggles
    /\ hist' = _toggle_bridge([hist EXCEPT !.toggles = @ + 1])
    /\ UNCHANGED <<bridge, rcv, snd, settings, conv, th, op, net>>

\* run_bridge, lines 406-410: a new event loop, and bridge.start() called on
\* it (bridge.py lines 324-336).
RunBridgeStart ==
    /\ hist.bridge_thread = "new"
    /\ op.pc = "idle"
    /\ IF bridge.running
       THEN /\ hist' = [hist EXCEPT !.loop = @ + 1, !.bridge_thread = "start"]
            /\ UNCHANGED <<bridge, op, net>>
       ELSE /\ net.starts < MaxStarts
            /\ net' = [net EXCEPT !.starts = @ + 1]
            /\ bridge' = [bridge EXCEPT !.running = TRUE, !.error_count = 0,
                                        !.messages_processed = 0,
                                        !.messages_converted = 0,
                                        !.messages_forwarded = 0]
            /\ op' = NewOp("start", "start_recv")
            /\ hist' = [hist EXCEPT !.loop = @ + 1, !.bridge_thread = "start",
                                    !.last_start = "pending"]
    /\ UNCHANGED <<rcv, snd, settings, conv, th>>

\* run_bridge, lines 410-416: start() has returned (it returns None, whether
\* the bridge runs or a component failed and start() stopped it again);
\* _on_bridge_started is handed to the main thread and the loop runs on.
RunBridgeStarted ==
    /\ hist.bridge_thread = "start"
    /\ op.pc = "idle"
    /\ hist' = [hist EXCEPT !.bridge_thread = "forever",
                            !.after = Append(@, "_on_bridge_started")]
    /\ UNCHANGED <<bridge, rcv, snd, settings, conv, th, op, net>>

\* The loop of the bridge thread runs a submitted bridge.stop() (bridge.py
\* lines 372-376): a warning on a bridge that is not running.
LoopRunsStop ==
    /\ hist.bridge_thread = "forever"
    /\ hist.stop_submitted > 0
    /\ op.pc = "idle"
    /\ hist' = [hist EXCEPT !.stop_submitted = @ - 1]
    /\ op' = IF bridge.running THEN NewOp("stop", "stop_begin") ELSE op
    /\ UNCHANGED <<bridge, rcv, snd, settings, conv, th, net>>

\* The main thread runs _on_bridge_started, lines 437-446.
OnBridgeStarted ==
    /\ hist.after # << >>
    /\ Head(hist.after) = "_on_bridge_started"
    /\ hist' = [hist EXCEPT !.after = Tail(@),
                            !.button_text = "Stop Middleware",
                            !.button_state = "normal",
                            !.status_bar = "running"]
    /\ UNCHANGED <<bridge, rcv, snd, settings, conv, th, op, net>>

\* The main thread runs a _poll_bridge_stopped that came due.
PollBridgeStopped ==
    /\ hist.after # << >>
    /\ Head(hist.after) = "_poll_bridge_stopped"
    /\ hist' = _poll_bridge_stopped([hist EXCEPT !.after = Tail(@)])
    /\ UNCHANGED <<bridge, rcv, snd, settings, conv, th, op, net>>

NextWindow ==
    \/ ToggleClicked
    \/ RunBridgeStart
    \/ RunBridgeStarted
    \/ LoopRunsStop
    \/ OnBridgeStarted
    \/ PollBridgeStopped
    \/ OpStep
    \/ \E t \in Threads : ListenStep(t)
    \/ \E t \in Threads : HandlerStep(t)
    \/ MainLoopPoll

SpecWindow == InitWindow /\ [][NextWindow]_vars

\* ================================================================== claims
AliveThreads == {t \in Threads : Alive(t)}
HandlersInProgress == {t \in Threads : InHandler(t)}
StartReturned(fail) == op.pc = "idle" /\ op.kind = "start" /\ op.fail = fail

\* C1 (SpecReconf): every message process_message has finished converting was
\* converted as one settings dictionary prescribes, and that dictionary is one
\* the converter referred to while the message was processed (the one before
\* a concurrent update or the one after it).
C1_SingleSnapshot ==
    \A t \in Threads :
        (th[t].pc = "h_send" /\ th[t].text = "rebuilt") =>
            \E cs \in th[t].seen :
                LET r == ApplyConversionsWith(data_dict(th[t].m), cs)
                IN  th[t].out = r.out /\ th[t].conv = r.conv

\* C2: at most one listen thread is alive and at most one handler invocation
\* is in progress at any time (with a single listen thread, which handles a
\* datagram before it receives the next, this is also the arrival order).
C2_SerialProcessing ==
    /\ Cardinality(AliveThreads) <= 1
    /\ Cardinality(HandlersInProgress) <= 1

\* C3: when start() has returned after a failed bind the bridge is not
\* running, its error counter has been incremented, start_sending was not
\* called by this start() and no supervisory task was created by it.
C3_BindFailure ==
    StartReturned("bind") =>
        /\ ~bridge.running
        /\ bridge.error_count >= 1
        /\ ~op.sender_called
        /\ ~op.task_launched
        /\ hist.last_start = "failed"

C3_Witness == StartReturned("bind") /\ snd.socket = "none"

C5_HandlerAfterSenderOpen ==
    [][\A t \in Threads :
          (th[t].pc = "recv" /\ th'[t].pc = "h_begin") =>
              ~(op.kind = "start" /\ op.pc # "idle")]_vars

\* C6: stop() on a running bridge ends the supervisory task first, then closes
\* the sender, then stops the receiver; when it has returned the bridge is not
\* running, the task is finished, the sender's socket is closed, the
\* receiver's running flag is false and its socket closed.
C6_StopSequence ==
    op.kind = "stop" =>
        /\ op.pc = "stop_begin" =>
              bridge.running /\ bridge.main_task = "active"
              /\ snd.socket = "open" /\ rcv.running
        /\ op.pc = "stop_send" =>
              ~bridge.running /\ bridge.main_task = "done"
              /\ snd.socket = "open" /\ rcv.running
        /\ op.pc = "stop_recv" =>
              bridge.main_task = "done" /\ snd.socket = "closed"
              /\ rcv.running /\ rcv.socket = "open"
        /\ op.pc = "stop_join" =>
              snd.socket = "closed" /\ ~rcv.running /\ rcv.socket = "open"
        /\ op.pc = "idle" =>
              ~bridge.running /\ bridge.main_task = "done"
              /\ snd.socket = "closed" /\ ~rcv.running
              /\ rcv.socket = "closed"

C6_Witness == op.kind = "stop" /\ op.pc = "idle" /\ op.join = "joined"

\* C7 (FairSpec): a stop() called on a running bridge returns, with the bridge
\* not running and the receiver's socket closed, whether or not the listen
\* thread leaves its handler.
C7_StopTerminates ==
    (op.kind = "stop" /\ op.pc = "stop_begin")
        ~> (op.kind = "stop" /\ op.pc = "idle" /\ ~bridge.running
            /\ rcv.socket = "closed")

C7_Witness ==
    /\ op.kind = "stop" /\ op.pc = "idle"
    /\ op.join = "timeout"
    /\ InHandler(rcv.receive_thread)

\* A listen thread has been told to stop: close() has cleared the running
\* flag since the thread was started (a thread that is not the receiver's
\* current one was started before the close() that preceded the last bind).
ToldToStop(t) ==
    Alive(t) /\ (~rcv.running \/ t # rcv.receive_thread)

\* C8: a listen thread that has been told to stop does not enter another
\* receive: at its next test of the loop condition it leaves the loop.
C8_CooperativeCancel ==
    [][\A t \in Threads :
          (ToldToStop(t) /\ th[t].pc = "check") => th'[t].pc # "recv"]_vars

\* C9: after a successful start, while no handler invocation is in progress,
\* messages_processed = messages_forwarded + error_count.
C9_Accounting ==
    (hist.last_start = "ok" /\ HandlersInProgress = {}) =>
        bridge.messages_processed
            = bridge.messages_forwarded + bridge.error_count

\* C10: however a handler invocation ends, by returning or by an exception,
\* the listen thread is back at the head of its loop, and the invocation was
\* counted as forwarded or as an error (by the bridge or by the receiver).
C10_FailureIsolation ==
    [][\A t \in Threads :
          (InHandler(t) /\ th'[t].pc \notin HandlerPcs) =>
              /\ th'[t].pc = "check"
              /\ \/ bridge'.messages_forwarded = bridge.messages_forwarded + 1
                 \/ bridge'.error_count + rcv'.error_count
                        = bridge.error_count + rcv.error_count + 1]_vars

\* A thread whose handler raised an exception the receiver counted (no other
\* thread exists, and a receive error would have ended this one) is handling
\* the next datagram.
C10_Witness ==
    /\ net.starts = 1
    /\ rcv.error_count = 1
    /\ rcv.messages_received = 2
    /\ InHandler(1)

\* C11: a listen thread that has not been told to stop does not terminate,
\* whatever recvfrom returns or raises.
C11_ContinuousListening ==
    [][\A t \in Threads :
          (Alive(t) /\ ~ToldToStop(t)) => Alive(t)']_vars

\* A step in which the network delivers a datagram to a listen thread, and a
\* step in which thread t enters the handler.
Delivery == net'.delivered = net.delivered + 1
EntersHandler(t) == th[t].pc = "recv" /\ th'[t].pc = "h_begin"

\* C12 as stated (SpecPipe): every datagram delivered, of length zero or not,
\* is counted in messages_received and handed to the handler once.
C12_Original ==
    [][Delivery =>
          /\ rcv'.messages_received = rcv.messages_received + 1
          /\ \E t \in Threads : EntersHandler(t) /\ th'[t].m = net'.last]_vars

\* C12 as amended (SpecPipe): every datagram of non-zero length is counted in
\* messages_received and handed to the handler exactly once (one thread enters
\* the handler with it, and the handler is entered at no other step); a
\* datagram of length zero is not counted and the handler is not invoked.
C12_OneInvocationPerDatagram ==
    [][/\ Delivery =>
            IF Datagrams[net'.last] # << >>
            THEN /\ rcv'.messages_received = rcv.messages_received + 1
                 /\ Cardinality({t \in Threads : EntersHandler(t)}) = 1
                 /\ \A t \in Threads :
                        EntersHandler(t) => th'[t].m = net'.last
            ELSE /\ rcv' = rcv
                 /\ \A t \in Threads : ~EntersHandler(t)
                 /\ bridge' = bridge
       /\ (\E t \in Threads : EntersHandler(t)) => Delivery]_vars

\* A datagram was handled, then a datagram of length zero was skipped.
C12_Witness ==
    /\ net.delivered = 2
    /\ net.last = 2
    /\ Datagrams[net.last] = << >>
    /\ rcv.messages_received = 1
    /\ bridge.messages_processed = 1
    /\ th[1].pc = "check"

\* C13 (SpecPipe): a datagram that holds a byte that is not valid UTF-8 is
\* counted as an error by the receiver and is not handed to the handler.
C13_DecodeFailureDrops ==
    [][(Delivery /\ \E i \in 1..Len(Datagrams[net'.last]) :
                        IsInvalidByte(Datagrams[net'.last][i])) =>
          /\ rcv'.error_count = rcv.error_count + 1
          /\ \A t \in Threads : ~EntersHandler(t)]_vars

C15_WholesaleReconfiguration ==
    (op.pc = "idle" /\ hist.reload \in {"true", "raised"}) =>
        /\ hist.reload = "true"
        /\ conv.conversion_settings = settings
        /\ IF hist.was_running
           THEN /\ bridge.running
                /\ bridge.main_task = "active"
                /\ rcv.running /\ rcv.socket = "open"
                /\ snd.socket = "open"
           ELSE /\ ~bridge.running
                /\ rcv.socket = "none" /\ ~rcv.running
                /\ snd.socket = "none"

\* The pairs of the text the handler of thread t was called with, and the
\* state in which process_message has built its output for thread t.
InputPairs(t) == findall(decode(Datagrams[th[t].m]))
Converted(t) == th[t].pc = "h_send" /\ th[t].text = "rebuilt"
InputValues(t, name) ==
    {InputPairs(t)[j][2] : j \in {k \in 1..Len(InputPairs(t)) :
                                     InputPairs(t)[k][1] = name}}

\* The factor table: the factor from the source unit of a category to a
\* supported target, 0 for the source unit and for anything else.
FactorOf(category, unit) ==
    CASE category = "altitude" /\ unit = "feet" -> meters_to_feet
      [] category = "speed" /\ unit = "kmh" -> mps_to_kmh
      [] category = "speed" /\ unit = "knots" -> mps_to_knots
      [] category = "vario" /\ unit = "fpm" -> mps_to_fpm
      [] category = "acceleration" /\ unit = "fps2" -> mps2_to_fps2
      [] OTHER -> 0

\* The units _convert_altitude .. _convert_acceleration know.
Recognised(category) ==
    CASE category = "altitude" -> {"meters", "feet"}
      [] category = "speed" -> {"mps", "kmh", "knots"}
      [] category = "vario" -> {"mps", "fpm"}
      [] category = "acceleration" -> {"mps2", "fps2"}

\* The resolution rule for the variable `name` under the settings `cs`.
Resolves(name, cs) ==
    /\ cs.enabled
    /\ name \in DOMAIN variable_mappings
    /\ cs[variable_mappings[name]] # ""
    /\ FactorOf(variable_mappings[name], cs[variable_mappings[name]]) # 0

\* C16 (SpecPipe): in the output of one processed message a pair is converted
\* (an input value of its name times the table factor) and counted if and only
\* if conversions are enabled, its name is mapped, its category has a target
\* and the target is a supported unit other than the source unit; every other
\* pair carries an input value of its name and is not counted; the record
\* lists exactly the names of the converted pairs, in order.
C16_ResolutionRule ==
    \A t \in Threads : Converted(t) =>
        LET out == th[t].out
            changed == {i \in 1..Len(out) : Resolves(out[i][1], settings)}
        IN  /\ \A i \in 1..Len(out) :
                 \E v \in InputValues(t, out[i][1]) :
                    out[i][2] =
                        IF i \in changed
                        THEN v * FactorOf(variable_mappings[out[i][1]],
                                          settings[variable_mappings[out[i][1]]])
                        ELSE v * 100000
            /\ Len(th[t].conv) = Cardinality(changed)
            /\ {th[t].conv[j] : j \in 1..Len(th[t].conv)}
                   = {out[i][1] : i \in changed}

\* A message with a mapped and an unmapped variable, one of them converted.
C16_Witness ==
    /\ Converted(1)
    /\ settings.enabled /\ settings.acceleration = "fps2"
    /\ InputPairs(1) = << <<"time", 1>>, <<"az", 3>> >>
    /\ th[1].out = << <<"time", 100000>>, <<"az", 3 * mps2_to_fps2>> >>
    /\ th[1].conv = <<"az">>

\* C17 (SpecPipe): with conversions disabled, whatever the targets, every
\* output value is an input value of its name, the record counts no
\* conversion, and neither the converter's total nor the bridge's
\* messages_converted ever leaves 0.
C17_Disable ==
    ~settings.enabled =>
        /\ \A t \in Threads : Converted(t) =>
              /\ th[t].conv = << >>
              /\ \A i \in 1..Len(th[t].out) :
                    \E v \in InputValues(t, th[t].out[i][1]) :
                        th[t].out[i][2] = v * 100000
        /\ bridge.messages_converted = 0
        /\ conv.conversions_applied = 0

\* Conversions are disabled with non-source targets and the second message
\* with mapped variables has been processed.
C17_Witness ==
    /\ ~settings.enabled /\ settings.altitude = "feet"
    /\ bridge.messages_processed = 2
    /\ Converted(1) /\ th[1].m = 1

\* C18 (SpecPipe): when the target of a category is not a unit the converter
\* knows, every variable of that category carries an input value and is not
\* counted, and the variables of the other categories are converted and
\* counted according to their own targets.
C18_UnknownUnit ==
    \A t \in Threads : Converted(t) /\ settings.enabled =>
        \A i \in 1..Len(th[t].out) :
            LET name == th[t].out[i][1]
                counted == \E j \in 1..Len(th[t].conv) : th[t].conv[j] = name
            IN  name \in DOMAIN variable_mappings =>
                    LET category == variable_mappings[name]
                        unit == settings[category]
                    IN  IF unit # "" /\ unit \notin Recognised(category)
                        THEN /\ ~counted
                             /\ \E v \in InputValues(t, name) :
                                    th[t].out[i][2] = v * 100000
                        ELSE FactorOf(category, unit) # 0 =>
                                /\ counted
                                /\ \E v \in InputValues(t, name) :
                                      th[t].out[i][2]
                                          = v * FactorOf(category, unit)

\* The altitude target is no altitude unit; in one message the altitude went
\* through and the vario was converted.
C18_Witness ==
    /\ Converted(1)
    /\ settings.enabled /\ settings.altitude = "yards"
    /\ th[1].out = << <<"altitude", 100 * 100000>>, <<"vario", 2 * mps_to_fpm>> >>
    /\ th[1].conv = <<"vario">>

\* C19 (SpecPipe): with the source units as targets and conversions enabled,
\* the output has the names of the input pairs in their order with their
\* values, and the record counts no conversion.
C19_Identity ==
    settings = DefaultConversions =>
        \A t \in Threads : Converted(t) =>
            /\ th[t].out = [i \in 1..Len(InputPairs(t)) |->
                              <<InputPairs(t)[i][1],
                                InputPairs(t)[i][2] * 100000>>]
            /\ th[t].conv = << >>

\* C20 (SpecPipe): the output of a processed message has as many pairs as the
\* input, with the input's names in the input's order.
C20_OrderAndPairs ==
    \A t \in Threads : Converted(t) =>
        /\ Len(th[t].out) = Len(InputPairs(t))
        /\ \A i \in 1..Len(th[t].out) :
              th[t].out[i][1] = InputPairs(t)[i][1]

\* A step in which thread t's send_message transmits a datagram.
Transmits(t) ==
    /\ th[t].pc = "h_send" /\ th'[t].pc = "check"
    /\ snd'.messages_sent = snd.messages_sent + 1

\* Key=value lines joined by CRLF with a CRLF at the end: at least one line,
\* every line a name and a rendered number.
WireFormat(p) ==
    /\ p.rebuilt
    /\ Len(p.lines) >= 1
    /\ \A i \in 1..Len(p.lines) :
          Len(p.lines[i]) = 2 /\ DOMAIN p.lines[i][2] = {"neg", "int", "frac"}

\* C21 (SpecPipe): every datagram the bridge transmits, whatever text the
\* handler was called with, consists of key=value lines joined by CRLF with a
\* trailing CRLF.
C21_WireFormat ==
    [][\A t \in Threads : Transmits(t) => WireFormat(Payload(t))]_vars

\* The scenario: the datagram "time=1.0\r\nairspeed=30.0\r\naltitude=1000.0\r\n"
\* handled by thread t under {speed: knots, altitude: feet, enabled: true}.
InScenario(t) ==
    /\ th[t].m \in DatagramIds
    /\ Datagrams[th[t].m]
          = << <<"time", 1>>, <<"airspeed", 30>>, <<"altitude", 1000>> >>
    /\ conv.conversion_settings
          = [DefaultConversions EXCEPT !.altitude = "feet", !.speed = "knots"]

\* "time=1\r\nairspeed=58.3152\r\naltitude=3280.84\r\n"
ScenarioOutput ==
    << <<"time", [neg |-> FALSE, int |-> 1, frac |-> << >>]>>,
       <<"airspeed", [neg |-> FALSE, int |-> 58, frac |-> <<3, 1, 5, 2>>]>>,
       <<"altitude", [neg |-> FALSE, int |-> 3280, frac |-> <<8, 4>>]>> >>

\* C22 (SpecPipe): in the scenario the handler counts the message as
\* processed, the conversion record lists 2 conversions and the message is
\* counted as converted, the text passed to the sender is
\* "time=1\r\nairspeed=58.3152\r\naltitude=3280.84\r\n", and the send that
\* transmits it sends one datagram and counts the message as forwarded.
C22_EndToEnd ==
    [][\A t \in Threads : InScenario(t) =>
          /\ th[t].pc = "h_begin" /\ th'[t].pc # "h_begin" =>
                /\ bridge'.messages_processed = bridge.messages_processed + 1
                /\ th'[t].pc = "h_pairs"
          /\ th[t].pc = "h_pairs" /\ th'[t].pc = "h_send" =>
                /\ Len(th'[t].conv) = 2
                /\ conv'.conversions_applied = conv.conversions_applied + 2
                /\ bridge'.messages_converted = bridge.messages_converted + 1
          /\ th[t].pc = "h_send" =>
                Payload(t) = [rebuilt |-> TRUE, lines |-> ScenarioOutput]
          /\ Transmits(t) =>
                /\ bridge'.messages_forwarded = bridge.messages_forwarded + 1
                /\ bridge'.messages_processed = bridge.messages_processed
                /\ bridge'.messages_converted = bridge.messages_converted
                /\ bridge'.error_count = bridge.error_count]_vars

\* The scenario's datagram was the only one delivered and has been forwarded.
C22_Witness ==
    /\ net.delivered = 1
    /\ Datagrams[net.last]
          = << <<"time", 1>>, <<"airspeed", 30>>, <<"altitude", 1000>> >>
    /\ settings = [DefaultConversions EXCEPT !.altitude = "feet", !.speed = "knots"]
    /\ th[1].pc = "check"
    /\ bridge.messages_processed = 1 /\ bridge.messages_converted = 1
    /\ bridge.messages_forwarded = 1 /\ bridge.error_count = 0
    /\ snd.messages_sent = 1
    /\ conv.conversions_applied = 2
    /\ conv.variables_converted = {"airspeed", "altitude"}

\* C23 (SpecFactors): with conversions enabled, a mapped variable whose
\* category has a supported target other than the source unit comes out as its
\* input value times 3.28084 (altitude to feet), 3.6 (speed to km/h), 1.94384
\* (speed to knots), 196.85 (vario to ft/min) or 3.28084 (acceleration to
\* ft/s2), with its sign; so 100.0 m is 328.084 ft, 10.0 m/s is 19.4384 kt and
\* -2.5 m/s is -492.125 ft/min.
C23_FactorTable ==
    (hist.done /\ settings.enabled
        /\ hist.variable \in DOMAIN variable_mappings) =>
        LET category == variable_mappings[hist.variable]
            unit == settings[category]
            v == hist.value
            result == hist.out[1][2]
        IN  /\ Len(hist.out) = 1 /\ hist.out[1][1] = hist.variable
            /\ category = "altitude" /\ unit = "feet" => result = v * 328084
            /\ category = "speed" /\ unit = "kmh" => result = v * 360000
            /\ category = "speed" /\ unit = "knots" => result = v * 194384
            /\ category = "vario" /\ unit = "fpm" => result = v * 19685000
            /\ category = "acceleration" /\ unit = "fps2" =>
                  result = v * 328084
            /\ hist.variable = "altitude" /\ unit = "feet" /\ v = 1000 =>
                  result = 328084000
            /\ hist.variable = "airspeed" /\ unit = "knots" /\ v = 100 =>
                  result = 19438400
            /\ hist.variable = "vario" /\ unit = "fpm" /\ v = -25 =>
                  result = -492125000 /\ result < 0

\* vario=-2.5 has been converted to ft/min.
C23_Witness ==
    /\ hist.done /\ settings.enabled /\ settings.vario = "fpm"
    /\ hist.variable = "vario" /\ hist.value = -25
    /\ hist.out = << <<"vario", -492125000>> >>
    /\ hist.conv = <<"vario">>

\* C24 (SpecStats): after any sequence of process_message and
\* reset_statistics calls the converter's total is the sum of
\* conversions_applied of the records returned since the last reset (or since
\* construction) and its set of converted variables the union of their
\* variables_converted; reset_statistics sets the total to 0 and the set to
\* empty and changes nothing else.
C24_ConverterStatistics ==
    /\ [](/\ conv.conversions_applied = hist.returned_total
          /\ conv.variables_converted = hist.returned_variables)
    /\ [][hist'.last_call = "reset_statistics" /\ hist'.calls # hist.calls =>
            /\ conv'.conversions_applied = 0
            /\ conv'.variables_converted = {}
            /\ conv'.conversion_settings = conv.conversion_settings
            /\ UNCHANGED <<bridge, rcv, snd, settings, th, op, net>>]_vars

\* Two messages with three conversions were processed, the statistics reset,
\* and a message with one conversion processed.
C24_Witness ==
    /\ hist.calls = 4
    /\ hist.last_call = "process_message"
    /\ hist.cleared = 3
    /\ conv.conversions_applied = 1
    /\ conv.variables_converted = {"az"}
    /\ hist.returned_total = 1

\* The step in which start() has the result of start_sending.
SenderOpened == op.pc = "start_send" /\ op'.pc # "start_send"

\* C25: start_sending succeeds whenever the socket was created, whether or not
\* the target could be validated: start() goes on to run, no error is counted
\* and only the connected flag tells the difference; it fails only when the
\* socket could not be created, and then the sender counts an error.  A send
\* on an open sender that is not validated is attempted: it transmits or it
\* counts the error of sendto.
C25_ValidationNotFatal ==
    [][/\ SenderOpened =>
            \/ /\ snd'.socket = "open"
               /\ snd'.error_count = snd.error_count
               /\ bridge'.error_count = bridge.error_count
               /\ bridge'.running /\ bridge'.main_task = "active"
               /\ op'.pc = "idle" /\ op'.fail = "none"
               /\ hist'.last_start = "ok"
            \/ /\ snd'.socket = snd.socket /\ snd'.connected = snd.connected
               /\ snd'.error_count = snd.error_count + 1
               /\ op'.fail = "open"
       /\ \A t \in Threads :
            (th[t].pc = "h_send" /\ th'[t].pc # "h_send"
             /\ snd.socket = "open" /\ ~snd.connected /\ snd' # snd) =>
                \/ snd'.messages_sent = snd.messages_sent + 1
                \/ snd'.error_count = snd.error_count + 1]_vars

\* The target could not be validated, the bridge runs and has forwarded a
\* message.
C25_Witness ==
    /\ bridge.running /\ hist.last_start = "ok" /\ op.pc = "idle"
    /\ snd.socket = "open" /\ ~snd.connected
    /\ snd.error_count = 0
    /\ snd.messages_sent = 1 /\ bridge.messages_forwarded = 1

\* C26 (SpecSender): every call of send_message, on a sender never opened,
\* open or closed, either transmits (messages_sent is one more, the call
\* returns True, the sender's error counter is unchanged) or fails
\* (messages_sent is unchanged, the call returns False, the sender's error
\* counter is one more).
C26_SendOutcome ==
    [][(hist'.last_call = "send_message" /\ hist'.calls = hist.calls + 1) =>
          \/ /\ hist'.returned
             /\ snd'.messages_sent = snd.messages_sent + 1
             /\ snd'.error_count = snd.error_count
          \/ /\ ~hist'.returned
             /\ snd'.messages_sent = snd.messages_sent
             /\ snd'.error_count = snd.error_count + 1]_vars

\* The bridge's aggregate counters, and the steps that write them: a step of
\* the handler in a listen thread; start() setting all four to 0 (lines
\* 331-336); start() counting the failure of the receiver or of the sender
\* (lines 341 and 348).
Counters(b) ==
    <<b.messages_processed, b.messages_converted, b.messages_forwarded,
      b.error_count>>
HandlerWrites == \E t \in Threads : InHandler(t) /\ th'[t] # th[t]
StartResets ==
    /\ op.pc = "idle" /\ op'.kind = "start" /\ op'.pc = "start_recv"
    /\ Counters(bridge') = <<0, 0, 0, 0>>
StartCountsFailure ==
    /\ op.kind = "start" /\ op.pc \in {"start_recv", "start_send"}
    /\ op'.fail # "none"
    /\ Counters(bridge') = <<bridge.messages_processed,
                             bridge.messages_converted,
                             bridge.messages_forwarded,
                             bridge.error_count + 1>>

\* C27 as stated: the bridge's counters are changed only by the handler
\* running in a listen thread (and by the error path of the supervisory
\* loop, which no step of the model takes); start() and stop() change none.
C27_Original ==
    [][Counters(bridge') # Counters(bridge) => HandlerWrites]_vars

\* C27 as amended: the bridge's counters are changed only by the handler
\* running in a listen thread and by start(), which sets all four to 0 when
\* it begins and adds one to the error counter when the receiver or the
\* sender fails to start; stop() changes none.
C27_Writers ==
    [][Counters(bridge') # Counters(bridge) =>
          HandlerWrites \/ StartResets \/ StartCountsFailure]_vars

\* The second start() has set to 0 the counters of a run that had forwarded a
\* message.
C27_Witness ==
    /\ net.starts = 2 /\ op.kind = "start" /\ op.pc = "start_recv"
    /\ snd.messages_sent = 1
    /\ Counters(bridge) = <<0, 0, 0, 0>>

\* A step that is a poll of the supervisory loop.
Polled == hist'.polls = hist.polls + 1

\* C28 as stated (SpecPoll): at every poll of a running bridge a warning is
\* logged if the receiver is not running, if the sender is not active, or if
\* no datagram has arrived within the last 10 s, also when none has arrived
\* since start.
C28_Original ==
    [][Polled =>
          /\ ~rcv.running => "receiver" \in hist'.warnings
          /\ snd.socket = "none" => "sender" \in hist'.warnings
          /\ hist'.stale => "nodata" \in hist'.warnings]_vars

\* C28 as amended (SpecPoll): at every poll of a running bridge a warning is
\* logged if the receiver is not running, if the sender is not active, or if
\* at least one datagram has been processed since start and none has arrived
\* within the last 10 s; while no datagram has been processed since start no
\* warning about missing data is logged.
C28_LivenessWarning ==
    [][Polled =>
          /\ ("receiver" \in hist'.warnings) = ~rcv.running
          /\ ("sender" \in hist'.warnings) = (snd.socket = "none")
          /\ ("nodata" \in hist'.warnings)
                = (hist'.stale /\ bridge.messages_processed > 0)]_vars

\* A first poll before any datagram logged nothing; a second, after a
\* datagram was processed and 10 s passed, logged the warning.
C28_Witness ==
    /\ hist.polls = 2 /\ hist.stale
    /\ hist.warnings = {"nodata"}
    /\ bridge.messages_processed = 1
    /\ net.delivered = 1

\* C29: in every state (get_status reads the fields from another thread at
\* any time, also while start() is in progress and after it failed), a bridge
\* whose running flag is true has its receiver bound with the listen thread
\* started and its sender opened.
C29_RunningImpliesReady ==
    bridge.running =>
        /\ rcv.socket = "open" /\ rcv.running /\ rcv.receive_thread # 0
        /\ snd.socket = "open"

\* stop() called on a running bridge has not returned.
Stopping == op.kind = "stop" /\ op.pc # "idle"

\* C30: while stop() is in progress, a listen thread that is handed a datagram
\* finds the sender's socket open, and no handler sends on a sender that
\* stop() has closed and counts the failure as an error of the bridge.
C30_NoSendOnClosedSender ==
    [][\A t \in Threads : Stopping =>
          /\ EntersHandler(t) => snd.socket = "open"
          /\ (th[t].pc = "h_send" /\ th'[t].pc = "check"
              /\ snd.socket = "closed") =>
                ~(/\ snd'.error_count = snd.error_count + 1
                  /\ bridge'.error_count = bridge.error_count + 1)]_vars

\* C31: whenever the receiver's listen thread has terminated, for whatever
\* reason, the receiver's running flag (what get_status reports and
\* _check_components tests) is false.
C31_RunningTracksThread ==
    (rcv.receive_thread # 0 /\ ~Alive(rcv.receive_thread)) => ~rcv.running

\* C32: after stop() has returned the receiver's status reports bound = false
\* and the sender's status active = false, until a later start() succeeds.
C32_StatusAfterStop ==
    (op.kind = "stop" /\ op.pc = "idle") =>
        /\ ~receiver_status.bound
        /\ ~sender_status.active

\* C33: after any sequence of start(), stop() and datagram arrivals, while no
\* handler invocation is in progress, the receiver has counted as many
\* messages as the bridge has processed and the sender has sent as many as the
\* bridge has forwarded.
C33_CounterAgreement ==
    HandlersInProgress = {} =>
        /\ rcv.messages_received = bridge.messages_processed
        /\ snd.messages_sent = bridge.messages_forwarded

\* A step in which `call` was called and found nothing to do.
ReturnsAtOnce(call) ==
    hist'.redundant = hist.redundant + 1 /\ hist'.last_call = call

\* C34 (SpecLifecycle): start() called on a running bridge and stop() called on
\* a stopped bridge return at once and change nothing: the running flag, the
\* counters, the sockets, the listen threads and the supervisory task are as
\* before; and a call that finds work to do is never one of these.
C34_RedundantCalls ==
    [][/\ (op.pc = "idle" /\ op'.pc = "idle" /\ hist' # hist) =>
            \/ ReturnsAtOnce("start") /\ bridge.running
            \/ ReturnsAtOnce("stop") /\ ~bridge.running
       /\ (ReturnsAtOnce("start") \/ ReturnsAtOnce("stop")) =>
            UNCHANGED <<bridge, rcv, snd, settings, conv, th, op, net>>
       /\ (op.pc = "idle" /\ hist'.last_call = "start" /\ hist' # hist
             /\ bridge.running) => ReturnsAtOnce("start")
       /\ (op.pc = "idle" /\ hist'.last_call = "stop" /\ hist' # hist
             /\ ~bridge.running) => ReturnsAtOnce("stop")]_vars

\* start() was called again on a bridge that had forwarded a message: the
\* bridge still runs and the message is still counted.
C34_Witness ==
    /\ hist.redundant = 1 /\ hist.last_call = "start"
    /\ net.starts = 1 /\ bridge.running /\ bridge.main_task = "active"
    /\ bridge.messages_forwarded = 1 /\ bridge.messages_processed = 1
    /\ rcv.running /\ snd.socket = "open" /\ Alive(rcv.receive_thread)

\* C35 (SpecReload): when update_settings has returned False because the
\* settings could not be loaded, the bridge is in the lifecycle state it was
\* in when the call was made: a bridge that was running is running, with its
\* receiver listening, its sender open and its supervisory task active.
C35_FailedReload ==
    hist.reload = "false" =>
        /\ bridge.running = hist.was_running
        /\ hist.was_running =>
              /\ rcv.running /\ rcv.socket = "open"
              /\ Alive(rcv.receive_thread)
              /\ snd.socket = "open"
              /\ bridge.main_task = "active"

\* C36 (SpecUDPSender): when set_target on a running sender has returned
\* True, and when start_sending called after close() has returned True, the
\* sender holds an open socket and is running, so that a send_message that
\* follows can transmit.
C36_SetTargetReopens ==
    (/\ op.pc = "idle"
     /\ hist.returned
     /\ \/ hist.last_call = "set_target" /\ hist.was_running
        \/ hist.last_call = "start_sending" /\ hist.prev_call = "close") =>
        /\ snd.socket = "open"
        /\ snd.running
        /\ "sent" \in UDPSenderOutcomes

\* The messages of the sequence s.
Range(s) == {s[i] : i \in 1..Len(s)}

\* The queued messages that were transmitted, in order.
Transmitted == SelectSeq([i \in 1..Len(net.wire) |-> net.wire[i][1]],
                         LAMBDA m : m # 0)

\* C37 (FairSpecUDPSender): the messages are taken from the queue in the
\* order they were accepted, none is transmitted twice, a send_message_async
\* on a sender that is not running returns False and leaves the queue as it
\* was, and every message send_message_async accepted is eventually either
\* transmitted or counted as an error, whenever close() is called.
C37_QueuedSending ==
    /\ [](/\ Len(hist.taken) <= Len(hist.accepted)
          /\ hist.taken = SubSeq(hist.accepted, 1, Len(hist.taken))
          /\ Cardinality(Range(Transmitted)) = Len(Transmitted)
          /\ Range(Transmitted) \cap Range(hist.failed) = {})
    /\ [][(hist'.last_call = "send_message_async" /\ hist'.calls # hist.calls
             /\ ~snd.running) =>
            /\ ~hist'.returned
            /\ snd'.message_queue = snd.message_queue]_vars
    /\ \A m \in 1..MaxQueued :
          (m \in Range(hist.accepted)) ~>
              (m \in Range(Transmitted) \cup Range(hist.failed))

\* A click on the start/stop button.
Toggled == hist'.toggles = hist.toggles + 1

\* C38 (SpecWindow): a click on the start/stop button starts the bridge (a
\* new bridge thread will call start()) when the bridge is not running and
\* stops it (a stop() is submitted) when it is running; so the click after a
\* start and a stop made through the button starts the bridge again.
C38_ToggleAlternates ==
    [][Toggled =>
         IF bridge.running
         THEN hist'.stop_submitted = hist.stop_submitted + 1
         ELSE hist'.bridge_thread = "new"]_vars

\* The presentation _on_bridge_started sets.
StartedPresentation ==
    hist.button_text = "Stop Middleware" /\ hist.status_bar = "running"

\* C39 (SpecWindow): the window shows the started presentation only after a
\* start() that left the bridge running, and once the window has taken note
\* of a start() that failed on a bind or open error it shows the stopped or
\* the error presentation.
C39_StartReported ==
    /\ StartedPresentation => hist.last_start = "ok"
    /\ (hist.last_start = "failed" /\ hist.button_state = "normal") =>
          /\ hist.button_text = "Start Middleware"
          /\ hist.status_bar \in {"stopped", "error"}

====
